---- MODULE Spec2Model ----
(***************************************************************************)
(* State-machine model of the sensor-oracle decoder tooling:               *)
(*   - the DecoderGenerator workflow component                             *)
(*     (src/src/components/DecoderGenerator.tsx),                          *)
(*   - the job/evidence client (src/src/lib/azureDocumentIntelligence.ts): *)
(*     pollJobUntil, loadEvidenceWithRefresh, saveEvidence.                *)
(* Strings held by the program are abstracted to naturals: 0 is the empty  *)
(* (or undefined, i.e. falsy) string, 1..MaxVal are distinct non-empty     *)
(* texts.  An asynchronous handler is split at its awaits: one action for  *)
(* the part that runs at the click, one for each continuation.             *)
(***************************************************************************)
EXTENDS Integers, Sequences, FiniteSets, Bags, TLC

\* ------------------------------------------------------------------ bounds
MaxVal == 1          \* distinct non-empty texts
MaxInFlight == 1     \* asynchronous calls awaiting a response at the same time
MaxOverlap == 2      \* the same, where calls overlap (SpecOverlap)
MaxTimers == 1       \* interval timers alive at the same time
MaxLoops == 2        \* the same, where polling loops may overlap
MaxRefinements == 2  \* successful refinements counted

Vals == 0..MaxVal

\* ------------------------------------------------- DecoderGenerator: types
WORKFLOW_STEPS ==
  << "select_manufacturer", "upload_doc", "extracting", "view_doc",
     "step1_composite", "step2_rules", "step3_examples", "step4_reconcile",
     "step5_decoder", "step6_repair", "step7_feedback" >>

LastIndex == Len(WORKFLOW_STEPS) - 1

Manufacturer == {"milesight", "decentlab", "dragino", "watteco", "generic"}

findIndexByStep(targetStep) ==
  CHOOSE i \in 0..LastIndex : WORKFLOW_STEPS[i + 1] = targetStep

VARIABLES
  manufacturer,            \* "" or a Manufacturer
  currentIndex,
  furthestCompletedIndex,
  selectedFile,            \* BOOLEAN: a PDF is selected
  documentation,           \* Vals
  inputMode,               \* "pdf" | "text"
  isProcessing,
  art,                     \* the generation artifacts, one field per useState
  pollingIntervalRef,      \* NoTimer = null, else the interval it holds
  pollStartTimeRef,        \* "null" | "fresh" | "expired" (over TIMEOUT_MS ago)
  timers,                  \* bag of the live intervals, each named by the
                           \* furthestCompletedIndex its poll closure holds
  inflight,                \* bag of the awaited calls: [kind, f] with f the
                           \* furthestCompletedIndex the awaiting closure holds
  lastAction,              \* history: the kind of the last step
  uploadStarted,           \* history: uploadAndExtract ran since the last reset
  msProgress,              \* history: Milesight calls completed in order
  feedbackDone,            \* history: a feedback call succeeded
  refinements,             \* history: refinements that succeeded, up to
                           \* MaxRefinements, since the last reset
  draginoProgress,         \* history: Dragino calls completed in order
  applied,                 \* history: "yes" once a poll tick of the current
                           \* upload stored the documentation, "mixed" when
                           \* polls of two uploads are alive together
  held                     \* history: the indices currentIndex has held
                           \* since the last reset

dgVars ==
  << manufacturer, currentIndex, furthestCompletedIndex, selectedFile,
     documentation, inputMode, isProcessing, art, pollingIntervalRef, pollStartTimeRef, timers, inflight, lastAction,
     uploadStarted, msProgress, feedbackDone, refinements, draginoProgress,
     applied, held >>

step == WORKFLOW_STEPS[currentIndex + 1]

EmptyArt ==
  [ compositeSpec |-> 0, rulesBlock |-> 0, examplesTablesMd |-> 0,
    decoderCode |-> 0, feedbackMarkdown |-> 0, refinementNotes |-> 0,
    deviceProfile |-> 0 ]

NoTimer == -1

Call(kind, f) == [ kind |-> kind, f |-> f ]
Awaiting(kind) == { c \in BagToSet(inflight) : c.kind = kind }

\* a response field as the service may send it: under the camelCase name,
\* the PascalCase name, both or neither (0 = absent)

\* the response field holding v under the name of the given casing alone
Named(casing, v) ==
  IF casing = "pascal" THEN [ camel |-> 0, pascal |-> v ]
                       ELSE [ camel |-> v, pascal |-> 0 ]
Casings == { "camel", "pascal" }

\* the responses: the field is present under at least one of its names
Resp == { r \in [ camel : Vals, pascal : Vals ] : r.camel # 0 \/ r.pascal # 0 }

\* the responses that name the field as the handlers of the Milesight
\* workflow read it
CamelResp == { Named("camel", v) : v \in 1..MaxVal }

\* JavaScript a || b on abstract strings
Or(a, b) == IF a # 0 THEN a ELSE b

\* the handlers that read their result under the PascalCase name first and
\* the camelCase name as a fallback (result.RulesBlock || result.rulesBlock)
BothCasingHandlers ==
  { "runDraginoStep1GenerateRules", "runDraginoStep2GenerateDecoder",
    "callGenericWorkflow", "refineDecoderWithFeedback" }

\* a faulty reader, which knows the camelCase name alone in every handler
resultFieldCamelOnly(name, r) == r.camel

\* what handler name reads from the response field r: the other handlers
\* read one fixed name (result.compositeSpec, result.repairedCode,
\* result.examplesMarkdown, result.feedback, result.profile, ...), which
\* starts with a small letter; a name the response lacks reads as undefined
resultField(name, r) ==
  IF name \in BothCasingHandlers THEN Or(r.pascal, r.camel) ELSE r.camel


\* ------------------------------------------- DecoderGenerator: navigation
\* goToStep: the index stored by setCurrentIndex
clampedIndex(index) ==
  IF index < 0 THEN 0 ELSE IF index > LastIndex THEN LastIndex ELSE index

\* goToStep: the value of furthestCompletedIndex after the call; closureF is
\* the furthestCompletedIndex of the render whose goToStep is being called,
\* cur the last committed value
\* a faulty goToStep, which marks the step after the target as reached
goToStepFurthestPastTarget(index, markComplete, closureF, cur) ==
  IF markComplete /\ clampedIndex(index) > closureF
    THEN clampedIndex(index) + 1
    ELSE cur

goToStepFurthest(index, markComplete, closureF, cur) ==
  IF markComplete /\ clampedIndex(index) > closureF
    THEN clampedIndex(index)
    ELSE cur

goToStep(index, markComplete, closureF) ==
  /\ currentIndex' = clampedIndex(index)
  /\ held' = held \cup { clampedIndex(index) }
  /\ furthestCompletedIndex' =
       goToStepFurthest(index, markComplete, closureF, furthestCompletedIndex)

\* stopPolling: clears the interval the ref points to and forgets the start
stopPolling ==
  /\ timers' = IF pollingIntervalRef # NoTimer
                 THEN timers (-) SetToBag({pollingIntervalRef})
                 ELSE timers
  /\ pollingIntervalRef' = NoTimer
  /\ pollStartTimeRef' = "null"


navVars == << currentIndex, furthestCompletedIndex, held >>
pollVars == << pollingIntervalRef, pollStartTimeRef, timers >>
histVars ==
  << uploadStarted, msProgress, feedbackDone, refinements, draginoProgress,
     applied >>

\* the history of the last step: r is the class of the step handler h made;
\* only the classes the properties below tell apart are kept
ToldApart ==
  { "ok", "fail", "reset", "select", "uploadFailed", "failed", "timeout",
    "nav", "next" }
Did(h, r) == lastAction' = IF r \in ToldApart THEN r ELSE "other"

\* ------------------------------------- DecoderGenerator: history monitors
MilesightCalls ==
  << "runStep1GenerateCompositeSpec", "runStep2GenerateRulesBlock",
     "runStep3ExtractExamplesTables", "runStep4ReconcileRulesBlock",
     "runStep5GenerateDecoder", "runStep6AutoRepairDecoder",
     "runStep7DecoderFeedback" >>

DraginoCalls ==
  << "runDraginoStep1GenerateRules", "runDraginoStep2GenerateDecoder" >>

FeedbackCalls == { "runStep7DecoderFeedback", "runDecentlabStep5StaticFeedback" }

Succeeded(name) ==
  /\ msProgress' = IF msProgress < Len(MilesightCalls)
                      /\ MilesightCalls[msProgress + 1] = name
                     THEN msProgress + 1 ELSE msProgress
  /\ feedbackDone' = (feedbackDone \/ name \in FeedbackCalls)
  /\ draginoProgress' = IF draginoProgress < Len(DraginoCalls)
                            /\ DraginoCalls[draginoProgress + 1] = name
                          THEN draginoProgress + 1 ELSE draginoProgress
  /\ refinements' = IF name = "refineDecoderWithFeedback"
                         /\ refinements < MaxRefinements
                       THEN refinements + 1 ELSE refinements
  /\ UNCHANGED << uploadStarted, applied >>

\* --------------------------------------------- DecoderGenerator: initial
InitDG ==
  /\ manufacturer = ""
  /\ currentIndex = 0
  /\ furthestCompletedIndex = 0
  /\ selectedFile = FALSE
  /\ documentation = 0
  /\ inputMode = "pdf"
  /\ isProcessing = FALSE
  /\ art = EmptyArt
  /\ pollingIntervalRef = NoTimer
  /\ pollStartTimeRef = "null"
  /\ timers = EmptyBag
  /\ inflight = EmptyBag
  /\ lastAction = "other"
  /\ uploadStarted = FALSE
  /\ applied = "no"
  /\ msProgress = 0
  /\ feedbackDone = FALSE
  /\ refinements = 0
  /\ draginoProgress = 0
  /\ held = {0}

\* ------------------------------- DecoderGenerator: selection and document
\* a faulty selector, shown on every card
selectManufacturerOnAnyCard(m) ==
  /\ m # manufacturer
  /\ manufacturer' = m
  /\ Did("select-manufacturer", "select")
  /\ UNCHANGED << navVars, selectedFile, documentation, inputMode, isProcessing, art, pollVars, inflight, histVars >>

\* <Select onValueChange>, rendered on the select_manufacturer card
selectManufacturer(m) ==
  /\ step = "select_manufacturer"
  /\ m # manufacturer
  /\ manufacturer' = m
  /\ Did("select-manufacturer", "select")
  /\ UNCHANGED << navVars, selectedFile, documentation, inputMode, isProcessing, art, pollVars, inflight, histVars >>

\* button-continue-manufacturer
continueManufacturer ==
  /\ step = "select_manufacturer"
  /\ manufacturer # ""
  /\ goToStep(findIndexByStep("upload_doc"), FALSE, furthestCompletedIndex)
  /\ Did("button-continue-manufacturer", "user")
  /\ UNCHANGED << manufacturer, selectedFile, documentation, inputMode,
                  isProcessing, art, pollVars, inflight,
                  histVars >>

\* the file input of the upload card is rendered for every manufacturer but
\* watteco, for generic only on the PDF tab
fileInputShown ==
  /\ step = "upload_doc"
  /\ manufacturer # "watteco"
  /\ (manufacturer = "generic" => inputMode = "pdf")

handleFileSelect ==
  /\ fileInputShown
  /\ selectedFile' = TRUE
  /\ Did("handleFileSelect", "user")
  /\ UNCHANGED << manufacturer, navVars, documentation, inputMode, isProcessing, art, pollVars, inflight, histVars >>

\* <Tabs onValueChange> of the generic upload card
setInputMode(v) ==
  /\ step = "upload_doc"
  /\ manufacturer = "generic"
  /\ v # inputMode
  /\ inputMode' = v
  /\ Did("setInputMode", "user")
  /\ UNCHANGED << manufacturer, navVars, selectedFile, documentation,
                  isProcessing, art, pollVars, inflight,
                  histVars >>

\* the documentation textareas: generic text tab, watteco card, view_doc card
documentationShown ==
  \/ /\ step = "upload_doc"
     /\ \/ manufacturer = "watteco"
        \/ manufacturer = "generic" /\ inputMode = "text"
  \/ step = "view_doc"

setDocumentation(v) ==
  /\ documentationShown
  /\ v # documentation
  /\ documentation' = v
  /\ Did("setDocumentation", "user")
  /\ UNCHANGED << manufacturer, navVars, selectedFile, inputMode, isProcessing, art, pollVars, inflight, histVars >>

\* button-back (upload card) and button-back-upload (view_doc card)
back ==
  /\ step = "upload_doc"
  /\ goToStep(findIndexByStep("select_manufacturer"), FALSE, furthestCompletedIndex)
  /\ Did("button-back", "user")
  /\ UNCHANGED << manufacturer, selectedFile, documentation, inputMode,
                  isProcessing, art, pollVars, inflight,
                  histVars >>

backUpload ==
  /\ step = "view_doc"
  /\ goToStep(findIndexByStep("upload_doc"), FALSE, furthestCompletedIndex)
  /\ Did("button-back-upload", "user")
  /\ UNCHANGED << manufacturer, selectedFile, documentation, inputMode,
                  isProcessing, art, pollVars, inflight,
                  histVars >>

\* ------------------------------------ DecoderGenerator: upload and polling
UploadsInFlight == { c \in BagToSet(inflight) : c.kind = "uploadAndExtract" }
PollsAlive ==
  \/ timers # EmptyBag
  \/ \E c \in BagToSet(inflight) :
       c.kind \in { "uploadAndExtract", "poll_getJob", "poll_loadEvidence" }

\* button-upload-extract dispatches to uploadAndExtract for the PDF cases
uploadButtonUploads ==
  /\ step = "upload_doc"
  /\ \/ manufacturer = "generic" /\ inputMode = "pdf"
     \/ manufacturer \notin {"generic", "watteco"}
  /\ selectedFile

\* uploadAndExtract up to its await of uploadPdfFile
uploadAndExtract(cap, timerCap) ==
  /\ uploadButtonUploads
  /\ BagCardinality(inflight) < cap
  /\ BagCardinality(timers) + Cardinality(UploadsInFlight) < timerCap
  /\ goToStep(findIndexByStep("extracting"), FALSE, furthestCompletedIndex)
  /\ inflight' = inflight (+) SetToBag({Call("uploadAndExtract", furthestCompletedIndex)})
  /\ uploadStarted' = TRUE
  /\ applied' = IF PollsAlive THEN "mixed" ELSE "no"
  /\ Did("uploadAndExtract", "upload")
  /\ UNCHANGED << manufacturer, selectedFile, documentation, inputMode,
                  isProcessing, art, pollVars, msProgress, feedbackDone,
                  refinements, draginoProgress >>

\* uploadPdfFile resolved: setJobId, then startPollingForExtraction, which
\* runs the first poll() up to its await of getJob and sets the interval
\* (jobId and isExtracting are written but never read by the component and
\* are left out of the state)
uploadResolved(c) ==
  /\ c.kind = "uploadAndExtract"
  /\ pollStartTimeRef' = "fresh"
  /\ inflight' = (inflight (-) SetToBag({c})) (+) SetToBag({Call("poll_getJob", c.f)})
  /\ timers' = timers (+) SetToBag({c.f})
  /\ pollingIntervalRef' = c.f
  /\ Did("uploadAndExtract", "uploaded")
  /\ UNCHANGED << manufacturer, navVars, selectedFile, documentation, inputMode,
                  isProcessing, art, histVars >>

\* uploadPdfFile rejected: the catch block of uploadAndExtract
uploadRejected(c) ==
  /\ c.kind = "uploadAndExtract"
  /\ goToStep(findIndexByStep("upload_doc"), FALSE, c.f)
  /\ inflight' = inflight (-) SetToBag({c})
  /\ Did("uploadAndExtract", "uploadFailed")
  /\ UNCHANGED << manufacturer, selectedFile, documentation, inputMode,
                  isProcessing, art, pollVars, histVars >>

\* the interval t fires: poll() up to its return or its await of getJob
pollTimedOut(t) ==
  /\ BagIn(t, timers)
  /\ pollStartTimeRef = "expired"
  /\ stopPolling
  /\ goToStep(findIndexByStep("upload_doc"), FALSE, t)
  /\ Did("poll", "timeout")
  /\ UNCHANGED << manufacturer, selectedFile, documentation, inputMode,
                  isProcessing, art, inflight, histVars >>

pollTick(t, cap) ==
  /\ BagIn(t, timers)
  /\ pollStartTimeRef # "expired"
  /\ BagCardinality(inflight) < cap
  /\ inflight' = inflight (+) SetToBag({Call("poll_getJob", t)})
  /\ Did("poll", "tick")
  /\ UNCHANGED << manufacturer, navVars, selectedFile, documentation, inputMode,
                  isProcessing, art, pollVars, histVars >>

\* getJob of a poll resolved or rejected; job is what it reports
JobOutcomes == { "evidence", "failed", "pending", "throw" }

pollGetJobReturned(c, job) ==
  /\ c.kind = "poll_getJob"
  /\ Did("poll_getJob", job)
  /\ CASE job = "evidence" ->
            /\ inflight' = (inflight (-) SetToBag({c}))
                              (+) SetToBag({Call("poll_loadEvidence", c.f)})
            /\ UNCHANGED << navVars, pollVars >>
       [] job = "failed" ->
            /\ stopPolling
            /\ goToStep(findIndexByStep("upload_doc"), FALSE, c.f)
            /\ inflight' = inflight (-) SetToBag({c})
       [] OTHER ->
            /\ inflight' = inflight (-) SetToBag({c})
            /\ UNCHANGED << navVars, pollVars >>
  /\ UNCHANGED << manufacturer, selectedFile, documentation, inputMode,
                  isProcessing, art, histVars >>

\* loadEvidenceWithRefresh resolved with the evidence text
pollEvidenceLoaded(c, evidenceText) ==
  /\ c.kind = "poll_loadEvidence"
  /\ stopPolling
  /\ documentation' = evidenceText
  /\ goToStep(findIndexByStep("view_doc"), TRUE, c.f)
  /\ inflight' = inflight (-) SetToBag({c})
  /\ Did("poll_loadEvidence", "loaded")
  /\ applied' = IF applied = "no" THEN "yes" ELSE applied
  /\ UNCHANGED << manufacturer, selectedFile, inputMode, isProcessing, art,
                  uploadStarted, msProgress, feedbackDone, refinements,
                  draginoProgress >>

\* loadEvidenceWithRefresh rejected: caught and logged by poll
pollEvidenceFailed(c) ==
  /\ c.kind = "poll_loadEvidence"
  /\ inflight' = inflight (-) SetToBag({c})
  /\ Did("poll_loadEvidence", "loadFailed")
  /\ UNCHANGED << manufacturer, navVars, selectedFile, documentation, inputMode,
                  isProcessing, art, pollVars, histVars >>

\* more than TIMEOUT_MS of wall-clock time passes since pollStartTimeRef
timePasses ==
  /\ pollStartTimeRef = "fresh"
  /\ pollStartTimeRef' = "expired"
  /\ Did("time", "time")
  /\ UNCHANGED << manufacturer, navVars, selectedFile, documentation, inputMode,
                  isProcessing, art, pollingIntervalRef,
                  timers, inflight, histVars >>


\* ------------------------------- DecoderGenerator: generation handlers
GenHandlers ==
  { "runStep1GenerateCompositeSpec", "runStep2GenerateRulesBlock",
    "runStep3ExtractExamplesTables", "runStep4ReconcileRulesBlock",
    "runStep5GenerateDecoder", "runStep6AutoRepairDecoder",
    "runStep7DecoderFeedback",
    "runDecentlabStep1GenerateRules", "runDecentlabStep2RefineRules",
    "runDecentlabStep3ExtractExamples", "runDecentlabStep4GenerateDecoder",
    "runDecentlabStep5StaticFeedback",
    "runDraginoStep1GenerateRules", "runDraginoStep2GenerateDecoder",
    "runWattecoStep1GenerateProfile", "runWattecoStep2GenerateDecoder",
    "callGenericWorkflow", "refineDecoderWithFeedback" }

\* the button that calls handler name is rendered and not disabled
offered(name) ==
  CASE name = "runStep1GenerateCompositeSpec" ->
         /\ step = "view_doc" /\ ~isProcessing
         /\ manufacturer \notin {"generic", "decentlab", "dragino"}
    [] name = "runDecentlabStep1GenerateRules" ->
         step = "view_doc" /\ ~isProcessing /\ manufacturer = "decentlab"
    [] name = "runDraginoStep1GenerateRules" ->
         step = "view_doc" /\ ~isProcessing /\ manufacturer = "dragino"
    [] name = "callGenericWorkflow" ->
         /\ manufacturer = "generic"
         /\ documentation # 0
         /\ \/ step = "view_doc" /\ ~isProcessing
            \/ step = "upload_doc" /\ inputMode = "text"
    [] name = "runWattecoStep1GenerateProfile" ->
         step = "upload_doc" /\ manufacturer = "watteco" /\ documentation # 0
    [] name = "runStep2GenerateRulesBlock" ->
         step = "step1_composite" /\ ~isProcessing /\ manufacturer = "milesight"
    [] name = "runDecentlabStep2RefineRules" ->
         /\ step = "step2_rules" /\ ~isProcessing
         /\ manufacturer = "decentlab" /\ art.rulesBlock # 0
    [] name = "runDecentlabStep3ExtractExamples" ->
         step = "step2_rules" /\ ~isProcessing /\ manufacturer = "decentlab"
    [] name = "runDraginoStep2GenerateDecoder" ->
         step = "step2_rules" /\ ~isProcessing /\ manufacturer = "dragino"
    [] name = "runWattecoStep2GenerateDecoder" ->
         step = "step2_rules" /\ ~isProcessing /\ manufacturer = "watteco"
    [] name = "runStep3ExtractExamplesTables" ->
         /\ step = "step2_rules" /\ ~isProcessing
         /\ manufacturer \notin {"decentlab", "dragino", "watteco"}
    [] name = "runDecentlabStep4GenerateDecoder" ->
         step = "step3_examples" /\ ~isProcessing /\ manufacturer = "decentlab"
    [] name = "runStep4ReconcileRulesBlock" ->
         /\ step = "step3_examples" /\ ~isProcessing
         /\ manufacturer \in {"milesight", "generic"}
    [] name = "runStep5GenerateDecoder" ->
         step = "step4_reconcile" /\ ~isProcessing /\ manufacturer = "milesight"
    [] name = "runStep6AutoRepairDecoder" ->
         step = "step5_decoder" /\ ~isProcessing /\ manufacturer = "milesight"
    [] name = "runDecentlabStep5StaticFeedback" ->
         step = "step5_decoder" /\ ~isProcessing /\ manufacturer = "decentlab"
    [] name = "runStep7DecoderFeedback" ->
         /\ ~isProcessing
         /\ \/ /\ step = "step5_decoder"
               /\ manufacturer \notin {"dragino", "watteco", "generic", "decentlab"}
            \/ step = "step6_repair" /\ manufacturer = "milesight"
    [] name = "refineDecoderWithFeedback" ->
         /\ ~isProcessing /\ art.decoderCode # 0
         /\ \/ /\ step = "step5_decoder"
               /\ manufacturer \in {"dragino", "watteco", "generic"}
            \/ step = "step7_feedback"
    [] OTHER -> FALSE

\* a generation handler up to its await of the remote call; cap is the number
\* of calls the environment lets wait for a response at the same time
startHandler(name, cap) ==
  /\ offered(name)
  /\ BagCardinality(inflight) < cap
  /\ isProcessing' = TRUE
  /\ inflight' = inflight (+) SetToBag({Call(name, furthestCompletedIndex)})
  /\ Did(name, "start")
  /\ UNCHANGED << manufacturer, navVars, selectedFile, documentation, inputMode,
                  art, pollVars, histVars >>

\* a faulty catch block, which moves on to the next step
handlerFailsButAdvances(c) ==
  /\ c.kind \in GenHandlers
  /\ isProcessing' = FALSE
  /\ inflight' = inflight (-) SetToBag({c})
  /\ Did(c.kind, "fail")
  /\ goToStep(currentIndex + 1, TRUE, c.f)
  /\ UNCHANGED << manufacturer, selectedFile, documentation, inputMode,
                  art, pollVars, histVars >>

\* the remote call of a generation handler failed (credentials missing, fetch
\* rejected, response not ok or not JSON): catch shows a toast, finally runs
handlerFails(c) ==
  /\ c.kind \in GenHandlers
  /\ isProcessing' = FALSE
  /\ inflight' = inflight (-) SetToBag({c})
  /\ Did(c.kind, "fail")
  /\ UNCHANGED << manufacturer, navVars, selectedFile, documentation, inputMode,
                  art, pollVars, histVars >>

\* what every generation handler does when its call succeeded, except for
\* the step pointer: store the artifacts, then finally { setIsProcessing(false) }
settle(c, name, newArt) ==
  /\ c.kind = name
  /\ art' = newArt
  /\ isProcessing' = FALSE
  /\ inflight' = inflight (-) SetToBag({c})
  /\ Did(name, "ok")
  /\ Succeeded(name)
  /\ UNCHANGED << manufacturer, selectedFile, documentation, inputMode,
                  pollVars >>

runStep1GenerateCompositeSpec(c, r) ==
  /\ settle(c, "runStep1GenerateCompositeSpec", [art EXCEPT !.compositeSpec = resultField("runStep1GenerateCompositeSpec", r)])
  /\ goToStep(findIndexByStep("step1_composite"), TRUE, c.f)

runStep2GenerateRulesBlock(c, r) ==
  /\ settle(c, "runStep2GenerateRulesBlock", [art EXCEPT !.rulesBlock = resultField("runStep2GenerateRulesBlock", r)])
  /\ goToStep(findIndexByStep("step2_rules"), TRUE, c.f)

runStep3ExtractExamplesTables(c, r) ==
  /\ settle(c, "runStep3ExtractExamplesTables", [art EXCEPT !.examplesTablesMd = resultField("runStep3ExtractExamplesTables", r)])
  /\ goToStep(findIndexByStep("step3_examples"), TRUE, c.f)

runStep4ReconcileRulesBlock(c, r) ==
  /\ settle(c, "runStep4ReconcileRulesBlock", [art EXCEPT !.rulesBlock = resultField("runStep4ReconcileRulesBlock", r)])
  /\ goToStep(findIndexByStep("step4_reconcile"), TRUE, c.f)

runStep5GenerateDecoder(c, r) ==
  /\ settle(c, "runStep5GenerateDecoder", [art EXCEPT !.decoderCode = resultField("runStep5GenerateDecoder", r)])
  /\ goToStep(findIndexByStep("step5_decoder"), TRUE, c.f)

runStep6AutoRepairDecoder(c, r) ==
  /\ settle(c, "runStep6AutoRepairDecoder", [art EXCEPT !.decoderCode = resultField("runStep6AutoRepairDecoder", r)])
  /\ goToStep(findIndexByStep("step6_repair"), TRUE, c.f)

runStep7DecoderFeedback(c, r) ==
  /\ settle(c, "runStep7DecoderFeedback", [art EXCEPT !.feedbackMarkdown = resultField("runStep7DecoderFeedback", r)])
  /\ goToStep(findIndexByStep("step7_feedback"), TRUE, c.f)

runDecentlabStep1GenerateRules(c, r) ==
  /\ settle(c, "runDecentlabStep1GenerateRules", [art EXCEPT !.rulesBlock = resultField("runDecentlabStep1GenerateRules", r)])
  /\ goToStep(findIndexByStep("step2_rules"), TRUE, c.f)

runDecentlabStep2RefineRules(c, r) ==
  /\ settle(c, "runDecentlabStep2RefineRules", [art EXCEPT !.rulesBlock = resultField("runDecentlabStep2RefineRules", r)])
  /\ UNCHANGED navVars

runDecentlabStep3ExtractExamples(c, r) ==
  /\ settle(c, "runDecentlabStep3ExtractExamples", [art EXCEPT !.examplesTablesMd = resultField("runDecentlabStep3ExtractExamples", r)])
  /\ goToStep(findIndexByStep("step3_examples"), TRUE, c.f)

runDecentlabStep4GenerateDecoder(c, r) ==
  /\ settle(c, "runDecentlabStep4GenerateDecoder", [art EXCEPT !.decoderCode = resultField("runDecentlabStep4GenerateDecoder", r)])
  /\ goToStep(findIndexByStep("step5_decoder"), TRUE, c.f)

runDecentlabStep5StaticFeedback(c, r) ==
  /\ settle(c, "runDecentlabStep5StaticFeedback", [art EXCEPT !.feedbackMarkdown = resultField("runDecentlabStep5StaticFeedback", r)])
  /\ goToStep(findIndexByStep("step7_feedback"), TRUE, c.f)

\* a faulty Dragino step 1, which stores the rules as the composite spec
runDraginoStep1StoresCompositeSpec(c, r) ==
  /\ settle(c, "runDraginoStep1GenerateRules",
            [art EXCEPT !.compositeSpec = resultField("runDraginoStep1GenerateRules", r)])
  /\ goToStep(findIndexByStep("step2_rules"), TRUE, c.f)

runDraginoStep1GenerateRules(c, r) ==
  /\ settle(c, "runDraginoStep1GenerateRules",
            [art EXCEPT !.rulesBlock = resultField("runDraginoStep1GenerateRules", r)])
  /\ goToStep(findIndexByStep("step2_rules"), TRUE, c.f)

runDraginoStep2GenerateDecoder(c, r) ==
  /\ settle(c, "runDraginoStep2GenerateDecoder",
            [art EXCEPT !.decoderCode = resultField("runDraginoStep2GenerateDecoder", r)])
  /\ goToStep(findIndexByStep("step5_decoder"), TRUE, c.f)

runWattecoStep1GenerateProfile(c, r) ==
  /\ settle(c, "runWattecoStep1GenerateProfile", [art EXCEPT !.deviceProfile = resultField("runWattecoStep1GenerateProfile", r)])
  /\ goToStep(findIndexByStep("step2_rules"), TRUE, c.f)

runWattecoStep2GenerateDecoder(c, r) ==
  /\ settle(c, "runWattecoStep2GenerateDecoder", [art EXCEPT !.decoderCode = resultField("runWattecoStep2GenerateDecoder", r)])
  /\ goToStep(findIndexByStep("step5_decoder"), TRUE, c.f)

\* one response populates five artifact fields; furthestCompletedIndex is set
\* to step5_decoder outright, then goToStep(step1_composite) without markComplete
callGenericWorkflow(c, casing, v) ==
  LET cs == Named(casing, v[1])
      rb == Named(casing, v[2])
      ex == Named(casing, v[3])
      dc == Named(casing, v[4])
      fb == Named(casing, v[5])
  IN
  /\ settle(c, "callGenericWorkflow",
            [art EXCEPT !.compositeSpec = resultField("callGenericWorkflow", cs),
                        !.rulesBlock = resultField("callGenericWorkflow", rb),
                        !.examplesTablesMd = resultField("callGenericWorkflow", ex),
                        !.decoderCode = resultField("callGenericWorkflow", dc),
                        !.feedbackMarkdown = resultField("callGenericWorkflow", fb)])
  /\ furthestCompletedIndex' = findIndexByStep("step5_decoder")
  /\ currentIndex' = clampedIndex(findIndexByStep("step1_composite"))
  /\ held' = held \cup { clampedIndex(findIndexByStep("step1_composite")) }

\* a faulty refinement, which marks the last step as reached
refineDecoderMarksComplete(c, code, notes) ==
  /\ settle(c, "refineDecoderWithFeedback",
            [art EXCEPT !.decoderCode = resultField("refineDecoderWithFeedback", code),
                        !.refinementNotes = resultField("refineDecoderWithFeedback", notes)])
  /\ currentIndex' = currentIndex
  /\ held' = held
  /\ furthestCompletedIndex' = LastIndex

refineDecoderWithFeedback(c, code, notes) ==
  /\ settle(c, "refineDecoderWithFeedback",
            [art EXCEPT !.decoderCode = resultField("refineDecoderWithFeedback", code),
                        !.refinementNotes = resultField("refineDecoderWithFeedback", notes)])
  /\ UNCHANGED navVars

\* ------------------------------------ DecoderGenerator: generation cards
generationStep == currentIndex >= 4

\* a faulty stepper, whose buttons ignore furthestCompletedIndex
stepperClickUngated(stepIndex) ==
  /\ generationStep
  /\ stepIndex \in 4..LastIndex
  /\ ~isProcessing
  /\ stepIndex # currentIndex
  /\ goToStep(stepIndex, FALSE, furthestCompletedIndex)
  /\ Did("stepper", "nav")
  /\ UNCHANGED << manufacturer, selectedFile, documentation, inputMode,
                  isProcessing, art, pollVars, inflight,
                  histVars >>

\* a button of the progress stepper (indices 4..10)
stepperClick(stepIndex) ==
  /\ generationStep
  /\ stepIndex \in 4..LastIndex
  /\ stepIndex <= furthestCompletedIndex
  /\ ~isProcessing
  /\ stepIndex # currentIndex
  /\ goToStep(stepIndex, FALSE, furthestCompletedIndex)
  /\ Did("stepper", "nav")
  /\ UNCHANGED << manufacturer, selectedFile, documentation, inputMode,
                  isProcessing, art, pollVars, inflight,
                  histVars >>

\* button-nav-previous
goToPreviousStep ==
  /\ generationStep
  /\ ~(currentIndex <= 4 \/ isProcessing)
  /\ currentIndex > 0 /\ ~isProcessing
  /\ goToStep(currentIndex - 1, FALSE, furthestCompletedIndex)
  /\ Did("goToPreviousStep", "nav")
  /\ UNCHANGED << manufacturer, selectedFile, documentation, inputMode,
                  isProcessing, art, pollVars, inflight,
                  histVars >>

\* button-nav-next
goToNextStep ==
  /\ generationStep
  /\ ~(currentIndex >= 10 \/ isProcessing \/ currentIndex >= furthestCompletedIndex)
  /\ currentIndex < LastIndex /\ ~isProcessing
  /\ currentIndex + 1 <= furthestCompletedIndex
  /\ goToStep(currentIndex + 1, FALSE, furthestCompletedIndex)
  /\ Did("goToNextStep", "next")
  /\ UNCHANGED << manufacturer, selectedFile, documentation, inputMode,
                  isProcessing, art, pollVars, inflight,
                  histVars >>

\* button-view-decoder of the step-7 card
viewDecoder ==
  /\ step = "step7_feedback"
  /\ goToStep(findIndexByStep("step5_decoder"), FALSE, furthestCompletedIndex)
  /\ Did("button-view-decoder", "user")
  /\ UNCHANGED << manufacturer, selectedFile, documentation, inputMode,
                  isProcessing, art, pollVars, inflight,
                  histVars >>

\* button-start-new of the step-7 card
resetWorkflow ==
  /\ step = "step7_feedback"
  /\ manufacturer' = ""
  /\ currentIndex' = 0
  /\ held' = {0}
  /\ furthestCompletedIndex' = 0
  /\ selectedFile' = FALSE
  /\ documentation' = 0
  /\ art' = EmptyArt
  /\ inputMode' = "pdf"
  /\ stopPolling
  /\ Did("resetWorkflow", "reset")
  /\ uploadStarted' = FALSE
  /\ applied' = IF PollsAlive THEN "mixed" ELSE "no"
  /\ msProgress' = 0
  /\ feedbackDone' = FALSE
  /\ refinements' = 0
  /\ draginoProgress' = 0
  /\ UNCHANGED << isProcessing, inflight >>


\* ------------------------------------------------- job client: pollJobUntil
\* src/src/lib/azureDocumentIntelligence.ts.  Time is Date.now() in ms; a
\* getJob call takes a latency, a timer fires at its delay or later.
DefaultTimeoutMs == 300000
DefaultIntervalMs == 2000
MaxLatencyTicks == 2   \* a getJob call takes 0..MaxLatencyTicks intervals
MaxLateTicks == 1      \* a timer fires 0..MaxLateTicks intervals late

Latencies == { k * DefaultIntervalMs : k \in 0..MaxLatencyTicks }
Lateness == { k * DefaultIntervalMs : k \in 0..MaxLateTicks }

VARIABLES
  pjPc,            \* "idle" | "getJob" (poll awaits getJob) | "timer"
                   \* (setTimeout(poll) pending) | "stopped" (nothing pending)
  pjNow,           \* Date.now()
  pjStartTime,
  pjPromise,       \* "pending" | "fulfilled" | "rejected"
  pjReason,        \* the error the promise was rejected with ("" = none)
  pjSettleCalls,   \* history: calls of resolve or reject
  pjSettledAt,     \* history: Date.now() at the first of them
  pjOnlyPending,   \* history: every job observed so far was neither
                   \* matching nor Failed nor in error
  pjJob,           \* history: the job the last step got from getJob, "none"
                   \* when it got none
  pjOnUpdate       \* history: the arguments of the calls of onUpdate the
                   \* last step made, in order

pjVars ==
  << pjPc, pjNow, pjStartTime, pjPromise, pjReason, pjSettleCalls,
     pjSettledAt, pjOnlyPending, pjJob, pjOnUpdate >>

InitPoll ==
  /\ pjPc = "idle"
  /\ pjNow = 0
  /\ pjStartTime = 0
  /\ pjPromise = "pending"
  /\ pjReason = ""
  /\ pjSettleCalls = 0
  /\ pjSettledAt = 0
  /\ pjOnlyPending = TRUE
  /\ pjJob = "none"
  /\ pjOnUpdate = << >>

\* a faulty test, which gives up after half of timeoutMs
timedOutEarly(now, startTime, timeoutMs) == 2 * (now - startTime) > timeoutMs

\* the test at the head of poll
timedOut(now, startTime, timeoutMs) == now - startTime > timeoutMs

\* resolve(job) / reject(error) of the promise executor: the first call
\* settles the promise, a later one has no effect on it
pjSettle(state, reason, now) ==
  /\ pjPromise' = IF pjPromise = "pending" THEN state ELSE pjPromise
  /\ pjReason' = IF pjPromise = "pending" THEN reason ELSE pjReason
  /\ pjSettledAt' = IF pjSettleCalls = 0 THEN now ELSE pjSettledAt
  /\ pjSettleCalls' = pjSettleCalls + 1

\* poll up to its return or its await of getJob
poll(now, startTime) ==
  IF timedOut(now, startTime, DefaultTimeoutMs)
    THEN /\ pjSettle("rejected", "Polling timeout", now)
         /\ pjPc' = "stopped"
    ELSE /\ pjPc' = "getJob"
         /\ UNCHANGED << pjPromise, pjReason, pjSettleCalls, pjSettledAt >>

\* the call: startTime = Date.now(), then poll()
pollJobUntil(now) ==
  /\ pjPc = "idle"
  /\ pjNow' = now
  /\ pjStartTime' = now
  /\ poll(now, now)
  /\ pjJob' = "none"
  /\ pjOnUpdate' = << >>
  /\ UNCHANGED pjOnlyPending

\* setTimeout(poll, intervalMs) fires
pjTimerFires(late) ==
  /\ pjPc = "timer"
  /\ pjNow' = pjNow + DefaultIntervalMs + late
  /\ poll(pjNow', pjStartTime)
  /\ pjJob' = "none"
  /\ pjOnUpdate' = << >>
  /\ UNCHANGED << pjStartTime, pjOnlyPending >>

\* a faulty poll, which schedules the next tick whatever the job was
pjGetJobReturnedAndGoesOn(latency, job) ==
  /\ pjPc = "getJob"
  /\ pjNow' = pjNow + latency
  /\ pjOnlyPending' = (pjOnlyPending /\ job = "pending")
  /\ pjJob' = IF job = "throws" THEN "none" ELSE job
  /\ pjOnUpdate' = IF job = "throws" THEN << >> ELSE << job >>
  /\ pjPc' = "timer"
  /\ CASE job \in { "matches", "matchesFailed" } -> pjSettle("fulfilled", "", pjNow')
       [] job = "failed" -> pjSettle("rejected", "Job failed", pjNow')
       [] job = "throws" -> pjSettle("rejected", "Failed to get job", pjNow')
       [] OTHER -> UNCHANGED << pjPromise, pjReason, pjSettleCalls, pjSettledAt >>
  /\ UNCHANGED pjStartTime

\* a faulty poll, which looks at the job's failure before the condition
pjGetJobReturnedFailedFirst(latency, job) ==
  /\ pjPc = "getJob"
  /\ pjNow' = pjNow + latency
  /\ pjOnlyPending' = (pjOnlyPending /\ job = "pending")
  /\ pjJob' = IF job = "throws" THEN "none" ELSE job
  /\ pjOnUpdate' = IF job = "throws" THEN << >> ELSE << job >>
  /\ CASE job \in { "failed", "matchesFailed" } ->
            pjSettle("rejected", "Job failed", pjNow') /\ pjPc' = "stopped"
       [] job = "matches" ->
            pjSettle("fulfilled", "", pjNow') /\ pjPc' = "stopped"
       [] job = "throws" ->
            pjSettle("rejected", "Failed to get job", pjNow') /\ pjPc' = "stopped"
       [] OTHER ->
            /\ pjPc' = "timer"
            /\ UNCHANGED << pjPromise, pjReason, pjSettleCalls, pjSettledAt >>
  /\ UNCHANGED pjStartTime

\* what getJob did: a job that satisfies the condition, one that also is
\* Failed or carries an error, one that is Failed or carries an error and
\* does not satisfy the condition, one that is none of these, or an exception
PollOutcomes == { "matches", "matchesFailed", "failed", "pending", "throws" }

\* the awaited getJob settled: the rest of poll
pjGetJobReturned(latency, job) ==
  /\ pjPc = "getJob"
  /\ pjNow' = pjNow + latency
  /\ pjOnlyPending' = (pjOnlyPending /\ job = "pending")
  /\ pjJob' = IF job = "throws" THEN "none" ELSE job
  /\ pjOnUpdate' = IF job = "throws" THEN << >> ELSE << job >>
  /\ CASE job \in { "matches", "matchesFailed" } ->
            pjSettle("fulfilled", "", pjNow') /\ pjPc' = "stopped"
       [] job = "failed" ->
            pjSettle("rejected", "Job failed", pjNow') /\ pjPc' = "stopped"
       [] job = "throws" ->
            pjSettle("rejected", "Failed to get job", pjNow') /\ pjPc' = "stopped"
       [] OTHER ->
            /\ pjPc' = "timer"
            /\ UNCHANGED << pjPromise, pjReason, pjSettleCalls, pjSettledAt >>
  /\ UNCHANGED pjStartTime


\* --------------------------------- job client: evidence load and save
\* loadEvidenceWithRefresh and saveEvidence of the library, and loadEvidence
\* and saveEvidence of PdfDecoderGenerator.tsx, which repeat them with the
\* errors shown as toasts and with a getJob that returns null on failure.
Impls == { "lib", "component" }

Statuses == { 200, 201, 403, 404, 500 }
Ok(status) == status \in 200..299

\* the URL fields of a JobResponse that the evidence functions read
EvidenceJobs ==
  [ evidenceReadUrl : Vals, evidenceMdUrl : Vals, evidenceTxtUrl : Vals ]

readUrl(job) == Or(Or(job.evidenceReadUrl, job.evidenceMdUrl), job.evidenceTxtUrl)

VARIABLES
  leImpl,
  lePc,          \* "idle" | "fetch" | "getJob" (the awaited call) | "done"
  leJob,         \* the job argument of the running invocation
  leRetryCount,
  leResult,      \* "" | "text" | "error"
  leError,       \* the message of the error
  leFetches,     \* history: fetches of an evidence URL
  leRefreshes,   \* history: getJob calls
  leStatuses,    \* history: the statuses the fetches returned
  leRefreshed    \* history: "" | "job" (getJob returned a job) | "failed"

leVars ==
  << leImpl, lePc, leJob, leRetryCount, leResult, leError, leFetches,
     leRefreshes, leStatuses, leRefreshed >>

NoJob == [ evidenceReadUrl |-> 0, evidenceMdUrl |-> 0, evidenceTxtUrl |-> 0 ]

InitLoad ==
  /\ leImpl = "lib"
  /\ lePc = "idle"
  /\ leJob = NoJob
  /\ leRetryCount = 0
  /\ leResult = ""
  /\ leError = ""
  /\ leFetches = 0
  /\ leRefreshes = 0
  /\ leStatuses = << >>
  /\ leRefreshed = ""

leFails(message) ==
  /\ lePc' = "done"
  /\ leResult' = "error"
  /\ leError' = message

\* one invocation up to its return or its await of fetch(readUrl)
leInvoke(impl, job, retryCount) ==
  /\ leJob' = job
  /\ leRetryCount' = retryCount
  /\ IF readUrl(job) = 0
       THEN /\ leFails(IF impl = "lib" THEN "No evidence URL available"
                                      ELSE "No evidence found")
            /\ UNCHANGED leFetches
       ELSE /\ lePc' = "fetch"
            /\ leFetches' = leFetches + 1
            /\ UNCHANGED << leResult, leError >>

loadEvidenceWithRefresh(impl, job) ==
  /\ lePc = "idle"
  /\ leImpl' = impl
  /\ leInvoke(impl, job, 0)
  /\ UNCHANGED << leRefreshes, leStatuses, leRefreshed >>

\* a faulty version, which refreshes on every 403 whatever retryCount is
leFetchReturnedAlwaysRefreshes(status) ==
  /\ lePc = "fetch"
  /\ leStatuses' = Append(leStatuses, status)
  /\ IF Ok(status)
       THEN /\ lePc' = "done"
            /\ leResult' = "text"
            /\ UNCHANGED << leError, leRefreshes >>
       ELSE IF status = 403
         THEN /\ lePc' = "getJob"
              /\ leRefreshes' = leRefreshes + 1
              /\ UNCHANGED << leResult, leError >>
         ELSE /\ leFails("Failed to load evidence")
              /\ UNCHANGED leRefreshes
  /\ UNCHANGED << leImpl, leJob, leRetryCount, leFetches, leRefreshed >>

\* the awaited fetch resolved with a response
leFetchReturned(status) ==
  /\ lePc = "fetch"
  /\ leStatuses' = Append(leStatuses, status)
  /\ IF Ok(status)
       THEN /\ lePc' = "done"
            /\ leResult' = "text"
            /\ UNCHANGED << leError, leRefreshes >>
       ELSE IF status = 403 /\ leRetryCount = 0
         THEN /\ lePc' = "getJob"
              /\ leRefreshes' = leRefreshes + 1
              /\ UNCHANGED << leResult, leError >>
         ELSE /\ leFails("Failed to load evidence")
              /\ UNCHANGED leRefreshes
  /\ UNCHANGED << leImpl, leJob, leRetryCount, leFetches, leRefreshed >>

\* the awaited fetch rejected (no response)
leFetchRejected ==
  /\ lePc = "fetch"
  /\ leFails("fetch failed")
  /\ UNCHANGED << leImpl, leJob, leRetryCount, leFetches, leRefreshes,
                  leStatuses, leRefreshed >>

\* the refreshing getJob returned a job: the second invocation
leGetJobReturned(job) ==
  /\ lePc = "getJob"
  /\ leRefreshed' = "job"
  /\ leInvoke(leImpl, job, leRetryCount + 1)
  /\ UNCHANGED << leImpl, leRefreshes, leStatuses >>

\* the refreshing getJob failed: the library's getJob throws, the
\* component's returns null and loadEvidence throws
leGetJobFailed ==
  /\ lePc = "getJob"
  /\ leRefreshed' = "failed"
  /\ leFails(IF leImpl = "lib" THEN "Failed to get job"
                              ELSE "Failed to load evidence")
  /\ UNCHANGED << leImpl, leJob, leRetryCount, leFetches, leRefreshes,
                  leStatuses >>

\* the write URLs: "" is a job without one; the refreshed job carries a
\* URL with a new signature
WriteUrls == { "blob.md?sig=1", "blob.txt?sig=1" }
RefreshedUrls == { "blob.md?sig=2", "blob.txt?sig=2" }
MdUrls == { "blob.md?sig=1", "blob.md?sig=2" }

\* evidenceWriteUrl.includes(".md") and the content type chosen by it
contentType(evidenceWriteUrl) ==
  IF evidenceWriteUrl \in MdUrls THEN "text/markdown; charset=utf-8"
                                 ELSE "text/plain; charset=utf-8"

VARIABLES
  seImpl,
  sePc,          \* "idle" | "put" | "getJob" | "retry" (awaited) | "done"
  seWriteUrl,    \* the evidenceWriteUrl the call was given
  seContentType,
  seResult,      \* "" | "saved" | "error"
  seError,
  sePuts,        \* history: the URLs and content types of the PUTs made
  seRefreshes,   \* history: getJob calls
  seStatuses,    \* history: the statuses the PUTs returned
  seRefreshedUrl \* history: "none" | the evidenceWriteUrl of the refreshed
                 \* job ("" if it has none) | "failed"

seVars ==
  << seImpl, sePc, seWriteUrl, seContentType, seResult, seError, sePuts,
     seRefreshes, seStatuses, seRefreshedUrl >>

InitSave ==
  /\ seImpl = "lib"
  /\ sePc = "idle"
  /\ seWriteUrl = ""
  /\ seContentType = ""
  /\ seResult = ""
  /\ seError = ""
  /\ sePuts = << >>
  /\ seRefreshes = 0
  /\ seStatuses = << >>
  /\ seRefreshedUrl = "none"

seFails(message) ==
  /\ sePc' = "done"
  /\ seResult' = "error"
  /\ seError' = message

Put(url, type) == [ url |-> url, type |-> type ]

\* the library's saveEvidence up to its await of the PUT
saveEvidence(evidenceWriteUrl) ==
  /\ sePc = "idle"
  /\ seImpl' = "lib"
  /\ seWriteUrl' = evidenceWriteUrl
  /\ seContentType' = contentType(evidenceWriteUrl)
  /\ sePuts' = Append(sePuts, Put(evidenceWriteUrl, seContentType'))
  /\ sePc' = "put"
  /\ UNCHANGED << seResult, seError, seRefreshes, seStatuses, seRefreshedUrl >>

\* the component's saveEvidence up to its return or its await of the PUT;
\* editing is state.step === "editing", evidenceWriteUrl that of jobData
componentSaveEvidence(editing, evidenceWriteUrl) ==
  /\ sePc = "idle"
  /\ seImpl' = "component"
  /\ seWriteUrl' = evidenceWriteUrl
  /\ IF ~editing
       THEN /\ sePc' = "done"
            /\ UNCHANGED << seContentType, seResult, seError, sePuts >>
       ELSE IF evidenceWriteUrl = ""
         THEN /\ seFails("No write URL available")
              /\ UNCHANGED << seContentType, sePuts >>
         ELSE /\ seContentType' = contentType(evidenceWriteUrl)
              /\ sePuts' = Append(sePuts, Put(evidenceWriteUrl, seContentType'))
              /\ sePc' = "put"
              /\ UNCHANGED << seResult, seError >>
  /\ UNCHANGED << seRefreshes, seStatuses, seRefreshedUrl >>

\* the awaited first PUT resolved with a response
sePutReturned(status) ==
  /\ sePc = "put"
  /\ seStatuses' = Append(seStatuses, status)
  /\ IF Ok(status)
       THEN /\ sePc' = "done"
            /\ seResult' = "saved"
            /\ UNCHANGED << seError, seRefreshes >>
       ELSE IF status = 403
         THEN /\ sePc' = "getJob"
              /\ seRefreshes' = seRefreshes + 1
              /\ UNCHANGED << seResult, seError >>
         ELSE /\ seFails("Save failed")
              /\ UNCHANGED seRefreshes
  /\ UNCHANGED << seImpl, seWriteUrl, seContentType, sePuts, seRefreshedUrl >>

\* an awaited PUT rejected (no response)
sePutRejected ==
  /\ sePc \in { "put", "retry" }
  /\ seFails("fetch failed")
  /\ UNCHANGED << seImpl, seWriteUrl, seContentType, sePuts, seRefreshes,
                  seStatuses, seRefreshedUrl >>

\* a faulty version, which retries the PUT against the expired URL
seGetJobReturnedRetriesOldUrl(evidenceWriteUrl) ==
  /\ sePc = "getJob"
  /\ seRefreshedUrl' = evidenceWriteUrl
  /\ IF evidenceWriteUrl = ""
       THEN /\ seFails("Could not refresh write URL")
            /\ UNCHANGED sePuts
       ELSE /\ sePuts' = Append(sePuts, Put(seWriteUrl, seContentType))
            /\ sePc' = "retry"
            /\ UNCHANGED << seResult, seError >>
  /\ UNCHANGED << seImpl, seWriteUrl, seContentType, seRefreshes, seStatuses >>

\* the refreshing getJob returned a job with this evidenceWriteUrl
seGetJobReturned(evidenceWriteUrl) ==
  /\ sePc = "getJob"
  /\ seRefreshedUrl' = evidenceWriteUrl
  /\ IF evidenceWriteUrl = ""
       THEN /\ seFails("Could not refresh write URL")
            /\ UNCHANGED sePuts
       ELSE /\ sePuts' = Append(sePuts, Put(evidenceWriteUrl, seContentType))
            /\ sePc' = "retry"
            /\ UNCHANGED << seResult, seError >>
  /\ UNCHANGED << seImpl, seWriteUrl, seContentType, seRefreshes, seStatuses >>

\* the refreshing getJob failed: the library's throws, the component's
\* returns null and saveEvidence throws
seGetJobFailed ==
  /\ sePc = "getJob"
  /\ seRefreshedUrl' = "failed"
  /\ seFails(IF seImpl = "lib" THEN "Failed to get job"
                              ELSE "Could not refresh write URL")
  /\ UNCHANGED << seImpl, seWriteUrl, seContentType, sePuts, seRefreshes,
                  seStatuses >>

\* the awaited retry PUT resolved with a response
seRetryReturned(status) ==
  /\ sePc = "retry"
  /\ seStatuses' = Append(seStatuses, status)
  /\ IF Ok(status)
       THEN /\ sePc' = "done"
            /\ seResult' = "saved"
            /\ UNCHANGED seError
       ELSE seFails("Failed to save after refresh")
  /\ UNCHANGED << seImpl, seWriteUrl, seContentType, sePuts, seRefreshes,
                  seRefreshedUrl >>


\* ------------------------------------------------ job client: status codes
\* mapStatusCode of the library and its copy in PdfDecoderGenerator.tsx.  A
\* status as the backend sends it is a number or a string.
MaxCode == 9   \* the numeric codes tried are -MaxCode..MaxCode

JobStatus == { "Uploaded", "Extracting", "Extracted", "Generating", "Done", "Failed" }

Num(n) == [ type |-> "number", n |-> n, s |-> "" ]
Str(s) == [ type |-> "string", n |-> 0, s |-> s ]

StatusInputs ==
  { Num(n) : n \in -MaxCode..MaxCode } \cup
  { Str(t) : t \in JobStatus \cup { "", "Unknown" } }

\* statusMap; a key it does not hold reads as undefined, here ""
statusMap ==
  [ k \in 0..6 |->
      CASE k \in {0, 1} -> "Uploaded"
        [] k = 2 -> "Extracting"
        [] k = 3 -> "Extracted"
        [] k = 4 -> "Generating"
        [] k = 5 -> "Done"
        [] OTHER -> "Failed" ]

statusMapLookup(k) == IF k \in DOMAIN statusMap THEN statusMap[k] ELSE ""

\* a faulty copy, which reads code 1 as Extracting
mapStatusCodeOffByOne(statusCode) ==
  IF statusCode.type = "string" THEN statusCode.s
  ELSE IF statusMapLookup(statusCode.n + 1) # ""
         THEN statusMapLookup(statusCode.n + 1)
         ELSE "Failed"

\* the library's mapStatusCode
mapStatusCode(statusCode) ==
  IF statusCode.type = "string" THEN statusCode.s
  ELSE IF statusMapLookup(statusCode.n) # ""
         THEN statusMapLookup(statusCode.n)
         ELSE "Failed"

\* the component's statusMap and mapStatusCode
pdfStatusMap ==
  [ k \in 0..6 |->
      CASE k = 0 -> "Uploaded"
        [] k = 1 -> "Uploaded"
        [] k = 2 -> "Extracting"
        [] k = 3 -> "Extracted"
        [] k = 4 -> "Generating"
        [] k = 5 -> "Done"
        [] k = 6 -> "Failed" ]

pdfMapStatusCode(statusCode) ==
  IF statusCode.type = "string" THEN statusCode.s
  ELSE LET v == IF statusCode.n \in DOMAIN pdfStatusMap
                  THEN pdfStatusMap[statusCode.n] ELSE ""
       IN IF v # "" THEN v ELSE "Failed"

NotMapped == "(not mapped)"

VARIABLES
  scInput,   \* the Status field of the response at hand
  scHave,    \* a response is at hand
  scLib,     \* what the library's mapStatusCode returned for it
  scPdf      \* what the component's returned

scVars == << scInput, scHave, scLib, scPdf >>

InitStatus ==
  /\ scInput = Num(0)
  /\ scHave = FALSE
  /\ scLib = NotMapped
  /\ scPdf = NotMapped

\* a job response arrives
scReceive(statusCode) ==
  /\ scInput' = statusCode
  /\ scHave' = TRUE
  /\ scLib' = NotMapped
  /\ scPdf' = NotMapped
  /\ << scHave, scInput >> # << TRUE, statusCode >>

\* normalizeJobResponse of the library maps its status
scLibMaps ==
  /\ scHave
  /\ scLib = NotMapped
  /\ scLib' = mapStatusCode(scInput)
  /\ UNCHANGED << scInput, scHave, scPdf >>

\* normalizeJobResponse of the component maps its status
scPdfMaps ==
  /\ scHave
  /\ scPdf = NotMapped
  /\ scPdf' = pdfMapStatusCode(scInput)
  /\ UNCHANGED << scInput, scHave, scLib >>

\* ------------------------------------------- result fields of a response
\* The result field of a generation or refinement response as the handler
\* that awaited it reads it (DecoderGenerator.tsx, the first statement after
\* each await of callDecoderGenAPI / fetch).
NotRead == -1

VARIABLES
  rfHandler,  \* the handler whose response is at hand, "" for none
  rfResp,     \* its result field: the value under each of its two names
  rfStored    \* what the handler passed to the artifact's setter

rfVars == << rfHandler, rfResp, rfStored >>

InitFields ==
  /\ rfHandler = ""
  /\ rfResp = Named("camel", 1)
  /\ rfStored = NotRead

\* the call of handler name is answered with result field r
rfRespond(name, r) ==
  /\ << rfHandler, rfResp >> # << name, r >>
  /\ rfHandler' = name
  /\ rfResp' = r
  /\ rfStored' = NotRead

\* the handler reads the field and calls the setter
rfStore ==
  /\ rfHandler # ""
  /\ rfStored = NotRead
  /\ rfStored' = resultField(rfHandler, rfResp)
  /\ UNCHANGED << rfHandler, rfResp >>

\* ----------------------------------------- ModelDBInsertion: the numbers
\* normalizeNumbers of ModelDBInsertion.tsx, applied by the submit handler to
\* the text of the JSON textarea.  A text is a sequence of characters.
MaxLen == 5    \* characters typed into the textarea

Digits == { "1", "2" }
Chars == Digits \cup { ",", "a" }

VARIABLES
  jsonInput,        \* the text of the textarea
  normalizedInput   \* normalizeNumbers(jsonInput) of the last submit, << >>
                    \* when the text changed since

nnVars == << jsonInput, normalizedInput >>

InitNumbers ==
  /\ jsonInput = << >>
  /\ normalizedInput = << >>

\* str.replace(/(\d),(\d)/g, "$1.$2") from index i on: the matches are found
\* from left to right, each search starting where the last match ended
RECURSIVE replaceFrom(_, _)
replaceFrom(str, i) ==
  IF i > Len(str) THEN << >>
  ELSE IF /\ i + 2 <= Len(str)
          /\ str[i] \in Digits
          /\ str[i + 1] = ","
          /\ str[i + 2] \in Digits
         THEN << str[i], ".", str[i + 2] >> \o replaceFrom(str, i + 3)
         ELSE << str[i] >> \o replaceFrom(str, i + 1)

normalizeNumbers(str) == replaceFrom(str, 1)

\* the user types a character
setJsonInput(ch) ==
  /\ Len(jsonInput) < MaxLen
  /\ jsonInput' = Append(jsonInput, ch)
  /\ normalizedInput' = << >>

\* handleSubmit up to JSON.parse: returns on an empty text, else normalizes
handleSubmit ==
  /\ jsonInput # << >>
  /\ normalizedInput = << >>
  /\ normalizedInput' = normalizeNumbers(jsonInput)
  /\ UNCHANGED jsonInput

\* ------------------------------------------------- PdfDecoderGenerator
\* The workflow of PdfDecoderGenerator.tsx: upload, extraction poll, evidence
\* load, StartGeneration, generation poll, and the buttons of its cards.
TIMEOUT_MS == 300000       \* of both polling loops
PollIntervalMs == 2000     \* window.setInterval(poll, 2000)

MaxPdfJobs == 2            \* uploads that create a job
MaxPdfLoops == 3           \* polling loops started
MaxPdfInFlight == 2        \* calls awaited at the same time
QuietTicks == 149          \* ticks in a row that found the job pending

VARIABLES
  pdfState,            \* state: [step, jobId, error]; jobId 0 is "", error ""
                       \* is absent
  pdfSelectedFile,
  pdfPollingIntervalRef, \* 0 = null, else the id of the interval it holds
  pdfSinceStart,       \* NoStart when pollStartTimeRef is null, else
                       \* Date.now() - pollStartTimeRef.current
  pdfTimers,           \* the live intervals: [id, loop, jobId], loop and jobId
                       \* being those of the interval's poll closure
  pdfInflight,         \* bag of the awaited calls: [kind, loop, jobId, id]
  pdfJobs,             \* jobs the service has created
  pdfLoops,            \* polling loops started
  pdfExpiredLoops,         \* history: ids of the loops that timed out
  pdfLoadedJobs,       \* history: the jobs whose evidence loadEvidence fetched
  pdfLast              \* history: the kind of the last step

pdfVars ==
  << pdfState, pdfSelectedFile, pdfPollingIntervalRef, pdfSinceStart,
     pdfTimers, pdfInflight, pdfJobs, pdfLoops, pdfExpiredLoops,
     pdfLoadedJobs, pdfLast >>

NoStart == -1

\* the values of pdfLast after a step the user made: a click or a file
\* choice, or one of the two cancel buttons
PdfUserSteps == { "user", "cancel" }

WorkflowState(stepName, jobId, error) ==
  [ step |-> stepName, jobId |-> jobId, error |-> error ]

PdfCall(kind, loop, jobId, id) ==
  [ kind |-> kind, loop |-> loop, jobId |-> jobId, id |-> id ]

PdfAwaiting(kind) == { c \in BagToSet(pdfInflight) : c.kind = kind }

TimeoutErrors ==
  { "Extraction timed out after 5 minutes", "Generation timed out after 5 minutes" }

InitPdf ==
  /\ pdfState = WorkflowState("idle", 0, "")
  /\ pdfSelectedFile = FALSE
  /\ pdfPollingIntervalRef = 0
  /\ pdfSinceStart = NoStart
  /\ pdfTimers = {}
  /\ pdfInflight = EmptyBag
  /\ pdfJobs = 0
  /\ pdfLoops = 0
  /\ pdfExpiredLoops = {}
  /\ pdfLoadedJobs = {}
  /\ pdfLast = "init"

\* the intervals left by stopPolling, which clears the one the ref holds
pdfStopPollingTimers ==
  { t \in pdfTimers : t.id # pdfPollingIntervalRef }

pdfStopPolling ==
  /\ pdfTimers' = pdfStopPollingTimers
  /\ pdfPollingIntervalRef' = 0
  /\ pdfSinceStart' = NoStart

\* startPollingForExtraction / startPollingForGeneration: stopPolling, the
\* start time, the first poll() up to its await of getJob, and setInterval
pdfStartPolling(loop, jobId) ==
  /\ pdfLoops' = pdfLoops + 1
  /\ pdfTimers' = pdfStopPollingTimers \cup
                    { [ id |-> pdfLoops + 1, loop |-> loop, jobId |-> jobId ] }
  /\ pdfPollingIntervalRef' = pdfLoops + 1
  /\ pdfSinceStart' = 0

pdfHandleFileSelect ==
  /\ pdfState.step = "idle"
  /\ ~pdfSelectedFile
  /\ pdfSelectedFile' = TRUE
  /\ pdfLast' = "user"
  /\ UNCHANGED << pdfState, pdfPollingIntervalRef, pdfSinceStart, pdfTimers,
                  pdfInflight, pdfJobs, pdfLoops, pdfExpiredLoops,
                  pdfLoadedJobs >>

\* uploadPdf up to its await of the upload
uploadPdf ==
  /\ pdfState.step = "idle"
  /\ pdfSelectedFile
  /\ pdfJobs + Cardinality(PdfAwaiting("uploadPdf")) < MaxPdfJobs
  /\ pdfLoops + Cardinality(PdfAwaiting("uploadPdf")) < MaxPdfLoops
  /\ BagCardinality(pdfInflight) < MaxPdfInFlight
  /\ pdfState' = WorkflowState("uploaded", 0, "")
  /\ pdfInflight' = pdfInflight (+) SetToBag({PdfCall("uploadPdf", "", 0, 0)})
  /\ pdfLast' = "user"
  /\ UNCHANGED << pdfSelectedFile, pdfPollingIntervalRef, pdfSinceStart,
                  pdfTimers, pdfJobs, pdfLoops, pdfExpiredLoops,
                  pdfLoadedJobs >>

\* the upload succeeded: the job's id, then startPollingForExtraction
pdfUploadResolved(c) ==
  /\ c.kind = "uploadPdf"
  /\ pdfJobs' = pdfJobs + 1
  /\ pdfState' = WorkflowState("extracting", pdfJobs + 1, "")
  /\ pdfStartPolling("extraction", pdfJobs + 1)
  /\ pdfInflight' = (pdfInflight (-) SetToBag({c}))
       (+) SetToBag({PdfCall("getJob", "extraction", pdfJobs + 1, pdfLoops + 1)})
  /\ pdfLast' = "uploaded"
  /\ UNCHANGED << pdfSelectedFile, pdfExpiredLoops,
                  pdfLoadedJobs >>

\* the upload failed: the catch block of uploadPdf
pdfUploadRejected(c) ==
  /\ c.kind = "uploadPdf"
  /\ pdfState' = WorkflowState("failed", 0, "Upload failed")
  /\ pdfInflight' = pdfInflight (-) SetToBag({c})
  /\ pdfLast' = "uploadFailed"
  /\ UNCHANGED << pdfSelectedFile, pdfPollingIntervalRef, pdfSinceStart,
                  pdfTimers, pdfJobs, pdfLoops, pdfExpiredLoops,
                  pdfLoadedJobs >>

\* QuietTicks ticks of the interval pass, each of which found the job
\* pending and none of which was past the timeout
pdfQuietTicks ==
  /\ pdfTimers # {}
  /\ pdfInflight = EmptyBag
  /\ pdfSinceStart # NoStart
  /\ pdfSinceStart + QuietTicks * PollIntervalMs <= TIMEOUT_MS
  /\ pdfSinceStart' = pdfSinceStart + QuietTicks * PollIntervalMs
  /\ pdfLast' = "quiet"
  /\ UNCHANGED << pdfState, pdfSelectedFile, pdfPollingIntervalRef, pdfTimers,
                  pdfInflight, pdfJobs, pdfLoops, pdfExpiredLoops,
                  pdfLoadedJobs >>

\* the test at the head of poll, sinceStart being the time since the start
pdfPastTimeout(sinceStart) ==
  sinceStart # NoStart /\ sinceStart > TIMEOUT_MS

\* the interval t fires PollIntervalMs after the last tick: poll() up to its
\* return or its await of getJob
pdfTimerFires(t) ==
  /\ t \in pdfTimers
  /\ LET now == IF pdfSinceStart = NoStart THEN NoStart
                ELSE pdfSinceStart + PollIntervalMs
     IN IF pdfPastTimeout(now)
          THEN /\ pdfStopPolling
               /\ pdfState' = WorkflowState("failed", t.jobId,
                     IF t.loop = "extraction"
                       THEN "Extraction timed out after 5 minutes"
                       ELSE "Generation timed out after 5 minutes")
               /\ pdfExpiredLoops' = pdfExpiredLoops \cup { t.id }
               /\ pdfLast' = "timeout"
               /\ UNCHANGED pdfInflight
          ELSE /\ BagCardinality(pdfInflight) < MaxPdfInFlight
               /\ pdfSinceStart' = now
               /\ pdfInflight' = pdfInflight
                    (+) SetToBag({PdfCall("getJob", t.loop, t.jobId, t.id)})
               /\ pdfLast' = "tick"
               /\ UNCHANGED << pdfState, pdfPollingIntervalRef, pdfTimers,
                               pdfExpiredLoops >>
  /\ UNCHANGED << pdfSelectedFile, pdfJobs, pdfLoops, pdfLoadedJobs >>

\* what the component's getJob returns: null after a failed fetch, else a
\* job that has the URLs the loop waits for, that is Failed or carries an
\* error, or that is neither
PdfJobOutcomes == { "null", "ready", "failed", "pending" }

\* the awaited getJob of a poll returned: the rest of poll
pdfGetJobReturned(c, job) ==
  /\ c.kind = "getJob"
  /\ CASE job = "ready" /\ c.loop = "extraction" ->
            /\ pdfStopPolling
            /\ pdfState' = WorkflowState("extracted", c.jobId, "")
            /\ pdfInflight' = (pdfInflight (-) SetToBag({c}))
                 (+) SetToBag({PdfCall("loadEvidence", c.loop, c.jobId, c.id)})
            /\ pdfLast' = "extracted"
       [] job = "ready" /\ c.loop = "generation" ->
            /\ pdfStopPolling
            /\ pdfState' = WorkflowState("done", c.jobId, "")
            /\ pdfInflight' = pdfInflight (-) SetToBag({c})
            /\ pdfLast' = "done"
       [] job = "failed" ->
            /\ pdfStopPolling
            /\ pdfState' = WorkflowState("failed", c.jobId,
                  IF c.loop = "extraction" THEN "Extraction failed"
                                           ELSE "Generation failed")
            /\ pdfInflight' = pdfInflight (-) SetToBag({c})
            /\ pdfLast' = "jobFailed"
       [] OTHER ->
            /\ pdfInflight' = pdfInflight (-) SetToBag({c})
            /\ pdfLast' = IF job = "null" THEN "fetchFailed" ELSE "pending"
            /\ UNCHANGED << pdfState, pdfPollingIntervalRef, pdfSinceStart,
                            pdfTimers >>
  /\ UNCHANGED << pdfSelectedFile, pdfJobs, pdfLoops, pdfExpiredLoops,
                  pdfLoadedJobs >>

\* loadEvidence fetched the evidence text
pdfEvidenceLoaded(c) ==
  /\ c.kind = "loadEvidence"
  /\ pdfState' = WorkflowState("editing", c.jobId, "")
  /\ pdfInflight' = pdfInflight (-) SetToBag({c})
  /\ pdfLast' = "loaded"
  /\ pdfLoadedJobs' = pdfLoadedJobs \cup { c.jobId }
  /\ UNCHANGED << pdfSelectedFile, pdfPollingIntervalRef, pdfSinceStart,
                  pdfTimers, pdfJobs, pdfLoops, pdfExpiredLoops >>

\* loadEvidence failed: its catch block shows a toast
pdfEvidenceFailed(c) ==
  /\ c.kind = "loadEvidence"
  /\ pdfInflight' = pdfInflight (-) SetToBag({c})
  /\ pdfLast' = "loadFailed"
  /\ UNCHANGED << pdfState, pdfSelectedFile, pdfPollingIntervalRef,
                  pdfSinceStart, pdfTimers, pdfJobs, pdfLoops, pdfExpiredLoops,
                  pdfLoadedJobs >>

\* button-cancel-extraction
cancelExtraction ==
  /\ pdfState.step = "extracting"
  /\ pdfStopPolling
  /\ pdfState' = WorkflowState("idle", 0, "")
  /\ pdfLast' = "cancel"
  /\ UNCHANGED << pdfSelectedFile, pdfInflight, pdfJobs, pdfLoops, pdfExpiredLoops,
                  pdfLoadedJobs >>

\* startGeneration up to its await of StartGeneration
startGeneration ==
  /\ pdfState.step = "editing"
  /\ pdfLoops + Cardinality(PdfAwaiting("startGeneration")) < MaxPdfLoops
  /\ BagCardinality(pdfInflight) < MaxPdfInFlight
  /\ pdfInflight' = pdfInflight
       (+) SetToBag({PdfCall("startGeneration", "", pdfState.jobId, 0)})
  /\ pdfLast' = "user"
  /\ UNCHANGED << pdfState, pdfSelectedFile, pdfPollingIntervalRef,
                  pdfSinceStart, pdfTimers, pdfJobs, pdfLoops, pdfExpiredLoops,
                  pdfLoadedJobs >>

\* StartGeneration answered ok: generating, then startPollingForGeneration
pdfGenerationStarted(c) ==
  /\ c.kind = "startGeneration"
  /\ pdfState' = WorkflowState("generating", c.jobId, "")
  /\ pdfStartPolling("generation", c.jobId)
  /\ pdfInflight' = (pdfInflight (-) SetToBag({c}))
       (+) SetToBag({PdfCall("getJob", "generation", c.jobId, pdfLoops + 1)})
  /\ pdfLast' = "generationStarted"
  /\ UNCHANGED << pdfSelectedFile, pdfJobs, pdfExpiredLoops,
                  pdfLoadedJobs >>

\* StartGeneration failed: the catch block of startGeneration
pdfGenerationRejected(c) ==
  /\ c.kind = "startGeneration"
  /\ pdfInflight' = pdfInflight (-) SetToBag({c})
  /\ pdfLast' = "generationRejected"
  /\ UNCHANGED << pdfState, pdfSelectedFile, pdfPollingIntervalRef,
                  pdfSinceStart, pdfTimers, pdfJobs, pdfLoops, pdfExpiredLoops,
                  pdfLoadedJobs >>

\* button-cancel-generation
cancelGeneration ==
  /\ pdfState.step = "generating"
  /\ pdfStopPolling
  /\ pdfState' = WorkflowState("editing", pdfState.jobId, "")
  /\ pdfLast' = "cancel"
  /\ UNCHANGED << pdfSelectedFile, pdfInflight, pdfJobs, pdfLoops, pdfExpiredLoops,
                  pdfLoadedJobs >>

\* button-back-to-edit of the failed card
backToEdit ==
  /\ pdfState.step = "failed"
  /\ pdfState.jobId # 0
  /\ pdfState' = WorkflowState("editing", pdfState.jobId, "")
  /\ pdfLast' = "user"
  /\ UNCHANGED << pdfSelectedFile, pdfPollingIntervalRef, pdfSinceStart,
                  pdfTimers, pdfInflight, pdfJobs, pdfLoops, pdfExpiredLoops,
                  pdfLoadedJobs >>

\* resetWorkflow of the component (button-start-over, button-new-job): it
\* clears the interval the ref holds and leaves pollStartTimeRef
pdfResetWorkflow ==
  /\ pdfState.step \in { "failed", "done" }
  /\ pdfState' = WorkflowState("idle", 0, "")
  /\ pdfSelectedFile' = FALSE
  /\ pdfTimers' = pdfStopPollingTimers
  /\ pdfPollingIntervalRef' = 0
  /\ pdfLast' = "user"
  /\ UNCHANGED << pdfSinceStart, pdfInflight, pdfJobs, pdfLoops, pdfExpiredLoops,
                  pdfLoadedJobs >>

\* ----------------------------------------------------- specifications
vars == << dgVars, pjVars, leVars, seVars, scVars, rfVars, nnVars, pdfVars >>

Init ==
  InitDG /\ InitPoll /\ InitLoad /\ InitSave /\ InitStatus /\ InitFields /\ InitNumbers
  /\ InitPdf

\* a step of one part leaves the others as they are
DGOnly == UNCHANGED << pjVars, leVars, seVars, scVars, rfVars, nnVars, pdfVars >>
PollOnly == UNCHANGED << dgVars, leVars, seVars, scVars, rfVars, nnVars, pdfVars >>
LoadOnly == UNCHANGED << dgVars, pjVars, seVars, scVars, rfVars, nnVars, pdfVars >>
SaveOnly == UNCHANGED << dgVars, pjVars, leVars, scVars, rfVars, nnVars, pdfVars >>
StatusOnly == UNCHANGED << dgVars, pjVars, leVars, seVars, rfVars, nnVars, pdfVars >>
FieldsOnly == UNCHANGED << dgVars, pjVars, leVars, seVars, scVars, nnVars, pdfVars >>
NumbersOnly == UNCHANGED << dgVars, pjVars, leVars, seVars, scVars, rfVars, pdfVars >>
PdfOnly == UNCHANGED << dgVars, pjVars, leVars, seVars, scVars, rfVars, nnVars >>

\* the DecoderGenerator workflow, one call awaited at a time
NextDG ==
  \/ \E m \in Manufacturer : selectManufacturer(m) /\ DGOnly
  \/ continueManufacturer /\ DGOnly
  \/ handleFileSelect /\ DGOnly
  \/ \E v \in {"pdf", "text"} : setInputMode(v) /\ DGOnly
  \/ \E v \in Vals : setDocumentation(v) /\ DGOnly
  \/ back /\ DGOnly
  \/ backUpload /\ DGOnly
  \/ uploadAndExtract(MaxInFlight, MaxTimers) /\ DGOnly
  \/ \E c \in Awaiting("uploadAndExtract") : uploadResolved(c) /\ DGOnly
  \/ \E c \in Awaiting("uploadAndExtract") : uploadRejected(c) /\ DGOnly
  \/ \E t \in BagToSet(timers) : pollTimedOut(t) /\ DGOnly
  \/ \E t \in BagToSet(timers) : pollTick(t, MaxInFlight) /\ DGOnly
  \/ \E c \in Awaiting("poll_getJob"), job \in JobOutcomes : pollGetJobReturned(c, job) /\ DGOnly
  \/ \E c \in Awaiting("poll_loadEvidence"), v \in 1..MaxVal : pollEvidenceLoaded(c, v) /\ DGOnly
  \/ \E c \in Awaiting("poll_loadEvidence") : pollEvidenceFailed(c) /\ DGOnly
  \/ timePasses /\ DGOnly
  \/ \E name \in GenHandlers : startHandler(name, MaxInFlight) /\ DGOnly
  \/ \E c \in BagToSet(inflight) : handlerFails(c) /\ DGOnly
  \/ \E c \in Awaiting("runStep1GenerateCompositeSpec"), r \in Resp : runStep1GenerateCompositeSpec(c, r) /\ DGOnly
  \/ \E c \in Awaiting("runStep2GenerateRulesBlock"), r \in Resp : runStep2GenerateRulesBlock(c, r) /\ DGOnly
  \/ \E c \in Awaiting("runStep3ExtractExamplesTables"), r \in Resp : runStep3ExtractExamplesTables(c, r) /\ DGOnly
  \/ \E c \in Awaiting("runStep4ReconcileRulesBlock"), r \in Resp : runStep4ReconcileRulesBlock(c, r) /\ DGOnly
  \/ \E c \in Awaiting("runStep5GenerateDecoder"), r \in Resp : runStep5GenerateDecoder(c, r) /\ DGOnly
  \/ \E c \in Awaiting("runStep6AutoRepairDecoder"), r \in Resp : runStep6AutoRepairDecoder(c, r) /\ DGOnly
  \/ \E c \in Awaiting("runStep7DecoderFeedback"), r \in Resp : runStep7DecoderFeedback(c, r) /\ DGOnly
  \/ \E c \in Awaiting("runDecentlabStep1GenerateRules"), r \in Resp : runDecentlabStep1GenerateRules(c, r) /\ DGOnly
  \/ \E c \in Awaiting("runDecentlabStep2RefineRules"), r \in Resp : runDecentlabStep2RefineRules(c, r) /\ DGOnly
  \/ \E c \in Awaiting("runDecentlabStep3ExtractExamples"), r \in Resp : runDecentlabStep3ExtractExamples(c, r) /\ DGOnly
  \/ \E c \in Awaiting("runDecentlabStep4GenerateDecoder"), r \in Resp : runDecentlabStep4GenerateDecoder(c, r) /\ DGOnly
  \/ \E c \in Awaiting("runDecentlabStep5StaticFeedback"), r \in Resp : runDecentlabStep5StaticFeedback(c, r) /\ DGOnly
  \/ \E c \in Awaiting("runDraginoStep1GenerateRules"), r \in Resp : runDraginoStep1GenerateRules(c, r) /\ DGOnly
  \/ \E c \in Awaiting("runDraginoStep2GenerateDecoder"), r \in Resp : runDraginoStep2GenerateDecoder(c, r) /\ DGOnly
  \/ \E c \in Awaiting("runWattecoStep1GenerateProfile"), r \in Resp : runWattecoStep1GenerateProfile(c, r) /\ DGOnly
  \/ \E c \in Awaiting("runWattecoStep2GenerateDecoder"), r \in Resp : runWattecoStep2GenerateDecoder(c, r) /\ DGOnly
  \/ \E c \in Awaiting("callGenericWorkflow"), casing \in Casings, v \in [1..5 -> 1..MaxVal] :
        callGenericWorkflow(c, casing, v) /\ DGOnly
  \/ \E c \in Awaiting("refineDecoderWithFeedback"), code, notes \in Resp : refineDecoderWithFeedback(c, code, notes) /\ DGOnly
  \/ \E i \in 4..LastIndex : stepperClick(i) /\ DGOnly
  \/ goToPreviousStep /\ DGOnly
  \/ goToNextStep /\ DGOnly
  \/ viewDecoder /\ DGOnly
  \/ resetWorkflow /\ DGOnly

SpecDG == Init /\ [][NextDG]_vars

\* the Milesight workflow alone, with calls that overlap: a poll tick fired
\* by setInterval while the previous one still awaits, a handler started
\* while a poll awaits
MilesightHandlers ==
  { MilesightCalls[i] : i \in 1..Len(MilesightCalls) } \cup { "refineDecoderWithFeedback" }

NextOverlap ==
  \/ selectManufacturer("milesight") /\ DGOnly
  \/ continueManufacturer /\ DGOnly
  \/ handleFileSelect /\ DGOnly
  \/ back /\ DGOnly
  \/ backUpload /\ DGOnly
  \/ uploadAndExtract(MaxOverlap, MaxTimers) /\ DGOnly
  \/ \E c \in Awaiting("uploadAndExtract") : uploadResolved(c) /\ DGOnly
  \/ \E c \in Awaiting("uploadAndExtract") : uploadRejected(c) /\ DGOnly
  \/ \E t \in BagToSet(timers) : pollTimedOut(t) /\ DGOnly
  \/ \E t \in BagToSet(timers) : pollTick(t, MaxOverlap) /\ DGOnly
  \/ \E c \in Awaiting("poll_getJob"), job \in JobOutcomes : pollGetJobReturned(c, job) /\ DGOnly
  \/ \E c \in Awaiting("poll_loadEvidence"), v \in 1..MaxVal : pollEvidenceLoaded(c, v) /\ DGOnly
  \/ \E c \in Awaiting("poll_loadEvidence") : pollEvidenceFailed(c) /\ DGOnly
  \/ timePasses /\ DGOnly
  \/ \E name \in MilesightHandlers : startHandler(name, MaxOverlap) /\ DGOnly
  \/ \E c \in BagToSet(inflight) : handlerFails(c) /\ DGOnly
  \/ \E c \in Awaiting("runStep1GenerateCompositeSpec"), r \in CamelResp : runStep1GenerateCompositeSpec(c, r) /\ DGOnly
  \/ \E c \in Awaiting("runStep2GenerateRulesBlock"), r \in CamelResp : runStep2GenerateRulesBlock(c, r) /\ DGOnly
  \/ \E c \in Awaiting("runStep3ExtractExamplesTables"), r \in CamelResp : runStep3ExtractExamplesTables(c, r) /\ DGOnly
  \/ \E c \in Awaiting("runStep4ReconcileRulesBlock"), r \in CamelResp : runStep4ReconcileRulesBlock(c, r) /\ DGOnly
  \/ \E c \in Awaiting("runStep5GenerateDecoder"), r \in CamelResp : runStep5GenerateDecoder(c, r) /\ DGOnly
  \/ \E c \in Awaiting("runStep6AutoRepairDecoder"), r \in CamelResp : runStep6AutoRepairDecoder(c, r) /\ DGOnly
  \/ \E c \in Awaiting("runStep7DecoderFeedback"), r \in CamelResp : runStep7DecoderFeedback(c, r) /\ DGOnly
  \/ \E c \in Awaiting("refineDecoderWithFeedback"), code, notes \in CamelResp : refineDecoderWithFeedback(c, code, notes) /\ DGOnly
  \/ \E i \in 4..LastIndex : stepperClick(i) /\ DGOnly
  \/ goToPreviousStep /\ DGOnly
  \/ goToNextStep /\ DGOnly
  \/ viewDecoder /\ DGOnly
  \/ resetWorkflow /\ DGOnly

SpecOverlap == Init /\ [][NextOverlap]_vars

\* document acquisition alone (Milesight), with uploads and poll ticks that
\* overlap and up to MaxLoops polling loops started
NextAcquire ==
  \/ selectManufacturer("milesight") /\ DGOnly
  \/ continueManufacturer /\ DGOnly
  \/ handleFileSelect /\ DGOnly
  \/ back /\ DGOnly
  \/ backUpload /\ DGOnly
  \/ uploadAndExtract(MaxOverlap, MaxLoops) /\ DGOnly
  \/ \E c \in Awaiting("uploadAndExtract") : uploadResolved(c) /\ DGOnly
  \/ \E c \in Awaiting("uploadAndExtract") : uploadRejected(c) /\ DGOnly
  \/ \E t \in BagToSet(timers) : pollTimedOut(t) /\ DGOnly
  \/ \E t \in BagToSet(timers) : pollTick(t, MaxOverlap) /\ DGOnly
  \/ \E c \in Awaiting("poll_getJob"), job \in JobOutcomes : pollGetJobReturned(c, job) /\ DGOnly
  \/ \E c \in Awaiting("poll_loadEvidence"), v \in 1..MaxVal : pollEvidenceLoaded(c, v) /\ DGOnly
  \/ \E c \in Awaiting("poll_loadEvidence") : pollEvidenceFailed(c) /\ DGOnly
  \/ timePasses /\ DGOnly

SpecAcquire == Init /\ [][NextAcquire]_vars

\* the Milesight workflow from selection to reset, with uploads and poll
\* ticks that overlap and up to MaxLoops polling loops started
NextLoops ==
  \/ selectManufacturer("milesight") /\ DGOnly
  \/ continueManufacturer /\ DGOnly
  \/ handleFileSelect /\ DGOnly
  \/ uploadAndExtract(MaxOverlap, MaxLoops) /\ DGOnly
  \/ \E c \in Awaiting("uploadAndExtract") : uploadResolved(c) /\ DGOnly
  \/ \E c \in Awaiting("uploadAndExtract") : uploadRejected(c) /\ DGOnly
  \/ \E t \in BagToSet(timers) : pollTick(t, MaxOverlap) /\ DGOnly
  \/ \E c \in Awaiting("poll_getJob"), job \in JobOutcomes : pollGetJobReturned(c, job) /\ DGOnly
  \/ \E c \in Awaiting("poll_loadEvidence"), v \in 1..MaxVal : pollEvidenceLoaded(c, v) /\ DGOnly
  \/ \E name \in MilesightHandlers \ { "runStep6AutoRepairDecoder", "refineDecoderWithFeedback" } :
        startHandler(name, MaxOverlap) /\ DGOnly
  \/ \E c \in Awaiting("runStep1GenerateCompositeSpec"), r \in CamelResp : runStep1GenerateCompositeSpec(c, r) /\ DGOnly
  \/ \E c \in Awaiting("runStep2GenerateRulesBlock"), r \in CamelResp : runStep2GenerateRulesBlock(c, r) /\ DGOnly
  \/ \E c \in Awaiting("runStep3ExtractExamplesTables"), r \in CamelResp : runStep3ExtractExamplesTables(c, r) /\ DGOnly
  \/ \E c \in Awaiting("runStep4ReconcileRulesBlock"), r \in CamelResp : runStep4ReconcileRulesBlock(c, r) /\ DGOnly
  \/ \E c \in Awaiting("runStep5GenerateDecoder"), r \in CamelResp : runStep5GenerateDecoder(c, r) /\ DGOnly
  \/ \E c \in Awaiting("runStep7DecoderFeedback"), r \in CamelResp : runStep7DecoderFeedback(c, r) /\ DGOnly
  \/ resetWorkflow /\ DGOnly

SpecLoops == Init /\ [][NextLoops]_vars

\* the workflow with Dragino the only manufacturer ever selected, with calls
\* that overlap
DraginoHandlers ==
  { DraginoCalls[i] : i \in 1..Len(DraginoCalls) } \cup { "refineDecoderWithFeedback" }

NextDragino ==
  \/ selectManufacturer("dragino") /\ DGOnly
  \/ continueManufacturer /\ DGOnly
  \/ handleFileSelect /\ DGOnly
  \/ \E v \in Vals : setDocumentation(v) /\ DGOnly
  \/ back /\ DGOnly
  \/ backUpload /\ DGOnly
  \/ uploadAndExtract(MaxOverlap, MaxTimers) /\ DGOnly
  \/ \E c \in Awaiting("uploadAndExtract") : uploadResolved(c) /\ DGOnly
  \/ \E c \in Awaiting("uploadAndExtract") : uploadRejected(c) /\ DGOnly
  \/ \E t \in BagToSet(timers) : pollTimedOut(t) /\ DGOnly
  \/ \E t \in BagToSet(timers) : pollTick(t, MaxOverlap) /\ DGOnly
  \/ \E c \in Awaiting("poll_getJob"), job \in JobOutcomes : pollGetJobReturned(c, job) /\ DGOnly
  \/ \E c \in Awaiting("poll_loadEvidence"), v \in 1..MaxVal : pollEvidenceLoaded(c, v) /\ DGOnly
  \/ \E c \in Awaiting("poll_loadEvidence") : pollEvidenceFailed(c) /\ DGOnly
  \/ timePasses /\ DGOnly
  \/ \E name \in DraginoHandlers : startHandler(name, MaxOverlap) /\ DGOnly
  \/ \E c \in BagToSet(inflight) : handlerFails(c) /\ DGOnly
  \/ \E c \in Awaiting("runDraginoStep1GenerateRules"), r \in Resp : runDraginoStep1GenerateRules(c, r) /\ DGOnly
  \/ \E c \in Awaiting("runDraginoStep2GenerateDecoder"), r \in Resp : runDraginoStep2GenerateDecoder(c, r) /\ DGOnly
  \/ \E c \in Awaiting("refineDecoderWithFeedback"), code, notes \in Resp : refineDecoderWithFeedback(c, code, notes) /\ DGOnly
  \/ \E i \in 4..LastIndex : stepperClick(i) /\ DGOnly
  \/ goToPreviousStep /\ DGOnly
  \/ goToNextStep /\ DGOnly

SpecDragino == Init /\ [][NextDragino]_vars

\* one call of pollJobUntil
NextPoll ==
  \/ \E now \in Latencies : pollJobUntil(now) /\ PollOnly
  \/ \E late \in Lateness : pjTimerFires(late) /\ PollOnly
  \/ \E latency \in Latencies, job \in PollOutcomes : pjGetJobReturned(latency, job) /\ PollOnly

SpecPoll == Init /\ [][NextPoll]_vars

\* the same where the event loop runs every due timer and every getJob
\* call settles
SpecPollFair == SpecPoll /\ WF_vars(NextPoll)

\* one call of loadEvidenceWithRefresh (or loadEvidence) and one of
\* saveEvidence
NextEvidence ==
  \/ \E impl \in Impls, job \in EvidenceJobs : loadEvidenceWithRefresh(impl, job) /\ LoadOnly
  \/ \E status \in Statuses : leFetchReturned(status) /\ LoadOnly
  \/ leFetchRejected /\ LoadOnly
  \/ \E job \in EvidenceJobs : leGetJobReturned(job) /\ LoadOnly
  \/ leGetJobFailed /\ LoadOnly
  \/ \E url \in WriteUrls : saveEvidence(url) /\ SaveOnly
  \/ \E editing \in BOOLEAN, url \in WriteUrls \cup { "" } :
        componentSaveEvidence(editing, url) /\ SaveOnly
  \/ \E status \in Statuses : sePutReturned(status) /\ SaveOnly
  \/ sePutRejected /\ SaveOnly
  \/ \E url \in RefreshedUrls \cup { "" } : seGetJobReturned(url) /\ SaveOnly
  \/ seGetJobFailed /\ SaveOnly
  \/ \E status \in Statuses : seRetryReturned(status) /\ SaveOnly

SpecEvidence == Init /\ [][NextEvidence]_vars

\* the Watteco workflow alone, with generation calls that overlap: its
\* first handler is called by button-upload-extract
WattecoHandlers ==
  { "runWattecoStep1GenerateProfile", "runWattecoStep2GenerateDecoder",
    "refineDecoderWithFeedback" }

NextWatteco ==
  \/ selectManufacturer("watteco") /\ DGOnly
  \/ continueManufacturer /\ DGOnly
  \/ \E v \in Vals : setDocumentation(v) /\ DGOnly
  \/ back /\ DGOnly
  \/ \E name \in WattecoHandlers : startHandler(name, MaxOverlap) /\ DGOnly
  \/ \E c \in BagToSet(inflight) : handlerFails(c) /\ DGOnly
  \/ \E c \in Awaiting("runWattecoStep1GenerateProfile"), r \in Resp : runWattecoStep1GenerateProfile(c, r) /\ DGOnly
  \/ \E c \in Awaiting("runWattecoStep2GenerateDecoder"), r \in Resp : runWattecoStep2GenerateDecoder(c, r) /\ DGOnly
  \/ \E c \in Awaiting("refineDecoderWithFeedback"), code, notes \in Resp : refineDecoderWithFeedback(c, code, notes) /\ DGOnly
  \/ \E i \in 4..LastIndex : stepperClick(i) /\ DGOnly
  \/ goToPreviousStep /\ DGOnly
  \/ goToNextStep /\ DGOnly

SpecWatteco == Init /\ [][NextWatteco]_vars

\* the status of a job response mapped by both copies of mapStatusCode
NextStatus ==
  \/ \E statusCode \in StatusInputs : scReceive(statusCode) /\ StatusOnly
  \/ scLibMaps /\ StatusOnly
  \/ scPdfMaps /\ StatusOnly

SpecStatus == Init /\ [][NextStatus]_vars

\* the result field of a response read by the handler that awaited it
NextFields ==
  \/ \E name \in GenHandlers, r \in Resp : rfRespond(name, r) /\ FieldsOnly
  \/ rfStore /\ FieldsOnly

SpecFields == Init /\ [][NextFields]_vars

\* the JSON textarea of ModelDBInsertion and its submit
NextNumbers ==
  \/ \E ch \in Chars : setJsonInput(ch) /\ NumbersOnly
  \/ handleSubmit /\ NumbersOnly

SpecNumbers == Init /\ [][NextNumbers]_vars

\* the workflow of PdfDecoderGenerator
NextPdf ==
  \/ pdfHandleFileSelect /\ PdfOnly
  \/ uploadPdf /\ PdfOnly
  \/ \E c \in PdfAwaiting("uploadPdf") : pdfUploadResolved(c) /\ PdfOnly
  \/ \E c \in PdfAwaiting("uploadPdf") : pdfUploadRejected(c) /\ PdfOnly
  \/ pdfQuietTicks /\ PdfOnly
  \/ \E t \in pdfTimers : pdfTimerFires(t) /\ PdfOnly
  \/ \E c \in PdfAwaiting("getJob"), job \in PdfJobOutcomes : pdfGetJobReturned(c, job) /\ PdfOnly
  \/ \E c \in PdfAwaiting("loadEvidence") : pdfEvidenceLoaded(c) /\ PdfOnly
  \/ \E c \in PdfAwaiting("loadEvidence") : pdfEvidenceFailed(c) /\ PdfOnly
  \/ cancelExtraction /\ PdfOnly
  \/ startGeneration /\ PdfOnly
  \/ \E c \in PdfAwaiting("startGeneration") : pdfGenerationStarted(c) /\ PdfOnly
  \/ \E c \in PdfAwaiting("startGeneration") : pdfGenerationRejected(c) /\ PdfOnly
  \/ cancelGeneration /\ PdfOnly
  \/ backToEdit /\ PdfOnly
  \/ pdfResetWorkflow /\ PdfOnly

SpecPdf == Init /\ [][NextPdf]_vars

\* the same with the fairness the event loop gives: the workflow takes a
\* step while one is possible, and a fetch that loadEvidence awaits settles
LoadEvidenceSettles ==
  \E c \in PdfAwaiting("loadEvidence") :
     (pdfEvidenceLoaded(c) \/ pdfEvidenceFailed(c)) /\ PdfOnly

SpecPdfFair == SpecPdf /\ WF_vars(NextPdf) /\ WF_vars(LoadEvidenceSettles)

C2_FailureKeepsState ==
  [][ lastAction' = "fail" =>
        /\ UNCHANGED << currentIndex, furthestCompletedIndex, art >>
        /\ isProcessing' = FALSE ]_vars

C2_Witness ==
  /\ lastAction = "fail"
  /\ furthestCompletedIndex >= findIndexByStep("step2_rules")
  /\ art.rulesBlock # 0

\* C3 (as stated): furthestCompletedIndex never decreases in a step that is
\* not resetWorkflow.
C3_FurthestMonotone ==
  [][ lastAction' # "reset" =>
        furthestCompletedIndex' >= furthestCompletedIndex ]_vars

\* C4 (as stated): a Dragino workflow is never at step1_composite,
\* step3_examples, step4_reconcile, step6_repair or step7_feedback, and a
\* Decentlab workflow never at step1_composite, step4_reconcile or step6_repair.
C4_SkippedSteps ==
  /\ manufacturer = "dragino" =>
       step \notin { "step1_composite", "step3_examples", "step4_reconcile",
                     "step6_repair", "step7_feedback" }
  /\ manufacturer = "decentlab" =>
       step \notin { "step1_composite", "step4_reconcile", "step6_repair" }

\* C5 (as stated): once a file has been uploaded or documentation is
\* non-empty, only resetWorkflow changes manufacturer.
C5_OnlyReset ==
  [][ (uploadStarted \/ documentation # 0) /\ manufacturer' # manufacturer =>
        lastAction' = "reset" ]_vars

\* C5 (amended): manufacturer changes only by resetWorkflow, which empties
\* it, or by the selector of the select_manufacturer step, which leaves the
\* step pointer there; the selector stays usable after acquisition has begun.
C5_SelectOrReset ==
  [][ manufacturer' # manufacturer =>
        \/ lastAction' = "reset" /\ manufacturer' = ""
        \/ /\ lastAction' = "select"
           /\ step = "select_manufacturer"
           /\ UNCHANGED currentIndex ]_vars

C5_Witness ==
  /\ lastAction = "select"
  /\ uploadStarted
  /\ documentation # 0

\* C6 (as stated): a Milesight workflow at step7_feedback has completed the
\* seven Milesight calls in order.
C6_AllSevenCalls ==
  (manufacturer = "milesight" /\ step = "step7_feedback") => msProgress = 7

\* C6 (amended): a workflow at step7_feedback has completed a feedback call
\* (runStep7DecoderFeedback or runDecentlabStep5StaticFeedback) since the last
\* resetWorkflow; the other calls need not all have been made.
C6_FeedbackCall ==
  step = "step7_feedback" => feedbackDone

C6_Witness ==
  /\ manufacturer = "milesight"
  /\ step = "step7_feedback"
  /\ msProgress = 5
  /\ feedbackDone

\* ------------------------------------------------ job client: properties
\* C7: pollJobUntil calls resolve or reject at most once, exactly once by
\* the time the loop has ended, and once the promise is settled no getJob
\* call is awaited and no timer is pending.
C7_SettlesOnce ==
  /\ pjSettleCalls <= 1
  /\ (pjPromise # "pending") <=> (pjSettleCalls = 1)
  /\ pjPromise # "pending" => pjPc = "stopped"
  /\ pjPc = "stopped" => pjSettleCalls = 1

C7_Witness ==
  /\ pjPromise = "fulfilled"
  /\ pjPc = "stopped"
  /\ pjSettledAt - pjStartTime >= 2 * DefaultIntervalMs

\* C8: pollJobUntil rejects with the timeout error only when at least
\* timeoutMs (300000 ms) have elapsed since the loop started, and if every
\* job it observes is neither matching nor Failed nor in error it eventually
\* rejects with the timeout error.
C8_Timeout ==
  /\ [](pjReason = "Polling timeout" =>
          /\ pjPromise = "rejected"
          /\ pjSettledAt - pjStartTime >= DefaultTimeoutMs
          /\ DefaultTimeoutMs = 300000)
  /\ <>(~pjOnlyPending \/ pjReason = "Polling timeout")

C8_Witness ==
  /\ pjReason = "Polling timeout"
  /\ pjOnlyPending
  /\ pjPc = "stopped"

\* C9: one call of loadEvidenceWithRefresh makes at most two fetches and at
\* most one getJob refresh; a 403 on the first fetch makes it refresh once
\* and, with the refreshed job's evidence URL, fetch once more; a non-OK
\* response to the retry ends the call with an error and nothing pending; a
\* non-403 failure of the first fetch ends it with an error and no refresh.
C9_LoadBound ==
  /\ leFetches <= 2
  /\ leRefreshes <= 1
  /\ (Len(leStatuses) >= 1 /\ leStatuses[1] = 403) =>
       /\ leRefreshes = 1
       /\ (leRefreshed = "job" /\ readUrl(leJob) # 0) => leFetches = 2
  /\ leFetches = 2 =>
       /\ Len(leStatuses) >= 1
       /\ leStatuses[1] = 403
       /\ leRefreshed = "job"
  /\ (Len(leStatuses) = 2 /\ ~Ok(leStatuses[2])) =>
       /\ lePc = "done"
       /\ leResult = "error"
       /\ leFetches = 2
       /\ leRefreshes = 1
  /\ (Len(leStatuses) >= 1 /\ ~Ok(leStatuses[1]) /\ leStatuses[1] # 403) =>
       /\ lePc = "done"
       /\ leResult = "error"
       /\ leFetches = 1
       /\ leRefreshes = 0

C9_Witness ==
  /\ lePc = "done"
  /\ leStatuses = << 403, 403 >>
  /\ leResult = "error"

\* C10: one call of saveEvidence makes at most two PUTs and at most one
\* getJob refresh; a 403 on the first PUT makes it refresh once and PUT once
\* more, to the write URL of the refreshed job; a refreshed job without a
\* write URL or a non-OK response to the retry ends the call with an error;
\* a non-403 failure of the first PUT ends it with an error, no refresh and
\* no retry.
C10_SaveBound ==
  /\ Len(sePuts) <= 2
  /\ seRefreshes <= 1
  /\ (Len(seStatuses) >= 1 /\ seStatuses[1] = 403) =>
       /\ seRefreshes = 1
       /\ seRefreshedUrl \in RefreshedUrls =>
            /\ Len(sePuts) = 2
            /\ sePuts[2].url = seRefreshedUrl
       /\ seRefreshedUrl = "" =>
            /\ sePc = "done"
            /\ seResult = "error"
            /\ Len(sePuts) = 1
  /\ Len(sePuts) = 2 =>
       /\ seStatuses[1] = 403
       /\ sePuts[2].url = seRefreshedUrl
       /\ sePuts[2].url # sePuts[1].url
  /\ (Len(seStatuses) = 2 /\ ~Ok(seStatuses[2])) =>
       /\ sePc = "done"
       /\ seResult = "error"
       /\ Len(sePuts) = 2
  /\ (Len(seStatuses) >= 1 /\ ~Ok(seStatuses[1]) /\ seStatuses[1] # 403) =>
       /\ sePc = "done"
       /\ seResult = "error"
       /\ seRefreshes = 0
       /\ Len(sePuts) = 1

C10_Witness ==
  /\ sePc = "done"
  /\ seStatuses = << 403, 201 >>
  /\ seResult = "saved"

\* C11: mapStatusCode maps 0 and 1 to Uploaded, 2 to Extracting, 3 to
\* Extracted, 4 to Generating, 5 to Done, 6 and every other integer to Failed,
\* returns a string input unchanged, and the library's copy and the
\* component's copy agree on every input.
C11_MapStatusCode ==
  /\ scLib # NotMapped =>
       /\ scInput.type = "string" => scLib = scInput.s
       /\ scInput.type = "number" =>
            scLib = CASE scInput.n \in {0, 1} -> "Uploaded"
                      [] scInput.n = 2 -> "Extracting"
                      [] scInput.n = 3 -> "Extracted"
                      [] scInput.n = 4 -> "Generating"
                      [] scInput.n = 5 -> "Done"
                      [] OTHER -> "Failed"
  /\ (scLib # NotMapped /\ scPdf # NotMapped) => scLib = scPdf

C11_Witness ==
  /\ scInput = Num(7)
  /\ scLib = "Failed"
  /\ scPdf = "Failed"

\* C12: when the upload fails, the polled job reports Failed or an error
\* without evidence, or the extraction poll times out, the workflow is at
\* upload_doc afterwards with the manufacturer and every artifact field as
\* before, and no polling timer is left.
C12_ExtractionFailure ==
  [][ lastAction' \in { "uploadFailed", "failed", "timeout" } =>
        /\ step' = "upload_doc"
        /\ manufacturer' = manufacturer
        /\ art' = art
        /\ timers' = EmptyBag
        /\ pollingIntervalRef' = NoTimer ]_vars

C14_ResetIsInitial ==
  [][ lastAction' = "reset" =>
        /\ manufacturer' = ""
        /\ currentIndex' = 0
        /\ furthestCompletedIndex' = 0
        /\ step' = "select_manufacturer"
        /\ selectedFile' = FALSE
        /\ documentation' = 0
        /\ art' = EmptyArt
        /\ inputMode' = "pdf"
        /\ pollingIntervalRef' = NoTimer
        /\ pollStartTimeRef' = "null"
        /\ timers' = EmptyBag ]_vars

\* C15: currentIndex moves to an index it has not held before only as the
\* effect of a successful remote call, which then raises
\* furthestCompletedIndex to that index when it is greater.  Stated for the
\* generation steps (step1_composite and later), where the claim is at its
\* most favourable: Continue and the start of an upload, which move forward
\* without any remote call having succeeded, are left aside.
C15_ForwardOnlyBySuccess ==
  [][ (currentIndex' \notin held
         /\ currentIndex' >= findIndexByStep("step1_composite")) =>
        /\ lastAction' = "ok"
        /\ art' # EmptyArt
        /\ furthestCompletedIndex' =
             IF currentIndex' > furthestCompletedIndex
               THEN currentIndex' ELSE furthestCompletedIndex ]_vars

\* C16: Previous, Next and the stepper buttons never put currentIndex above
\* furthestCompletedIndex and never change furthestCompletedIndex or an
\* artifact field; Next moves only from below furthestCompletedIndex, so at
\* currentIndex = furthestCompletedIndex it changes nothing.
C16_Navigation ==
  [][ /\ lastAction' \in { "nav", "next" } =>
           /\ currentIndex' <= furthestCompletedIndex'
           /\ furthestCompletedIndex' = furthestCompletedIndex
           /\ art' = art
      /\ lastAction' = "next" =>
           /\ currentIndex < furthestCompletedIndex
           /\ currentIndex' = currentIndex + 1 ]_vars

C18_FetchFailureKeepsPolling ==
  [][ (pjPc = "getJob" /\ pjReason' = "Failed to get job") =>
        /\ pjPromise' = "pending"
        /\ pjPc' = "timer" ]_vars

\* C19: in PdfDecoderGenerator each polling loop measures TIMEOUT_MS from
\* its own start: a tick polls while no more than that has passed, and the
\* first tick after it clears the timer and puts the workflow in failed with
\* the timeout message; from then on the loop issues no getJob, and the
\* workflow leaves failed only by a user action.
C19_PdfTimeout ==
  [][ /\ pdfLast' = "tick" => pdfSinceStart' <= TIMEOUT_MS
      /\ pdfLast' = "timeout" =>
           /\ pdfSinceStart + PollIntervalMs > TIMEOUT_MS
           /\ pdfTimers' = {}
           /\ pdfPollingIntervalRef' = 0
           /\ pdfState'.step = "failed"
           /\ pdfState'.error \in TimeoutErrors
      /\ \A c \in BagToSet(pdfInflight') :
           (c.kind = "getJob" /\ c.id \in pdfExpiredLoops) =>
              CopiesIn(c, pdfInflight') <= CopiesIn(c, pdfInflight)
      /\ (pdfState.step = "failed" /\ pdfState.error \in TimeoutErrors
            /\ pdfState'.step # "failed") =>
           pdfLast' \in PdfUserSteps ]_vars

\* C20: in each component at most one polling loop is active at any time:
\* two interval timers never coexist, in DecoderGenerator and in
\* PdfDecoderGenerator.
C20_OneLoop ==
  /\ BagCardinality(timers) <= 1
  /\ Cardinality(pdfTimers) <= 1

\* C21: the workflow state of PdfDecoderGenerator follows idle -> uploaded
\* -> extracting -> extracted -> editing -> generating -> done/failed:
\* extracted is entered only from extracting, editing only from extracted or
\* by the user's cancel of generation / Back to Edit, generating only from
\* editing, and done only from generating.
C21_DocumentedMachine ==
  [][ /\ (pdfState'.step = "extracted" /\ pdfState.step # "extracted") =>
            pdfState.step = "extracting"
      /\ (pdfState'.step = "editing" /\ pdfState.step # "editing") =>
            \/ pdfState.step = "extracted"
            \/ pdfLast' \in PdfUserSteps /\ pdfState.step \in { "generating", "failed" }
      /\ (pdfState'.step = "generating" /\ pdfState.step # "generating") =>
            pdfState.step = "editing"
      /\ (pdfState'.step = "done" /\ pdfState.step # "done") =>
            pdfState.step = "generating" ]_vars

\* C22 (as stated): every generation and refinement handler accepts its
\* result field under either casing: a response that carries the artifact
\* under the PascalCase name alone populates the artifact field exactly as
\* one that carries it under the camelCase name alone.
C22_EitherCasing ==
  \A casing \in Casings, v \in 1..MaxVal :
    (rfHandler # "" /\ rfStored # NotRead /\ rfResp = Named(casing, v)) =>
       rfStored = v

\* C22 (amended): the Dragino handlers, callGenericWorkflow and
\* refineDecoderWithFeedback store the value found under either name, the
\* PascalCase name first; every other handler stores the value found under
\* its one camelCase name, and nothing (undefined) when the response
\* carries the artifact under the PascalCase name alone.
C22_CasingPerHandler ==
  (rfHandler # "" /\ rfStored # NotRead) =>
    /\ rfHandler \in BothCasingHandlers =>
          rfStored = IF rfResp.pascal # 0 THEN rfResp.pascal ELSE rfResp.camel
    /\ rfHandler \notin BothCasingHandlers => rfStored = rfResp.camel

C22_Witness ==
  /\ rfHandler = "runDraginoStep2GenerateDecoder"
  /\ rfResp = Named("pascal", 1)
  /\ rfStored = 1

\* C23: normalizeNumbers replaces the comma by a period in every
\* digit-comma-digit occurrence of its input, occurrences that share a digit
\* (as in "1,2,3") included, and leaves every other character, so every
\* comma that is not between two digits, unchanged.
C23_NormalizeNumbers ==
  normalizedInput # << >> =>
    /\ Len(normalizedInput) = Len(jsonInput)
    /\ \A i \in 1..Len(jsonInput) :
         normalizedInput[i] =
           IF /\ jsonInput[i] = ","
              /\ i > 1 /\ i < Len(jsonInput)
              /\ jsonInput[i - 1] \in Digits
              /\ jsonInput[i + 1] \in Digits
             THEN "."
             ELSE jsonInput[i]

\* C24: on every poll observation pollJobUntil calls onUpdate exactly once
\* with the observed job and then decides: it resolves when condition(job)
\* is true, otherwise rejects when the job is Failed or carries an error,
\* otherwise schedules exactly one next tick after intervalMs.
C24_ObserveThenDecide ==
  [][ (pjPc = "getJob" /\ pjJob' # "none") =>
        /\ pjOnUpdate' = << pjJob' >>
        /\ pjJob' \in { "matches", "matchesFailed" } =>
              pjPromise' = "fulfilled" /\ pjPc' = "stopped"
        /\ pjJob' = "failed" =>
              pjPromise' = "rejected" /\ pjPc' = "stopped"
        /\ pjJob' = "pending" =>
              /\ pjPromise' = "pending"
              /\ pjPc' = "timer"
              /\ pjSettleCalls' = pjSettleCalls ]_vars

\* a Failed job that satisfies the condition has been observed after at least
\* one pending one, and the promise is fulfilled
C24_Witness ==
  /\ pjJob = "matchesFailed"
  /\ pjOnUpdate = << "matchesFailed" >>
  /\ pjPromise = "fulfilled"
  /\ ~pjOnlyPending
  /\ pjNow - pjStartTime >= DefaultIntervalMs

\* the generation and refinement calls that await their response
GenCallsInFlight ==
  BagCardinality([ c \in { d \in BagToSet(inflight) : d.kind \in GenHandlers }
                     |-> inflight[c] ])

\* C25: in DecoderGenerator at most one remote generation call is in flight
\* at any time: no user action starts a generation or refinement call while
\* isProcessing is true, and isProcessing is false exactly when no such call
\* is outstanding.
C25_OneGenerationCall ==
  [][ /\ GenCallsInFlight' <= 1
      /\ isProcessing' <=> (GenCallsInFlight' > 0)
      /\ (GenCallsInFlight' > GenCallsInFlight) => ~isProcessing ]_vars

\* C26: in PdfDecoderGenerator, after the user cancels extraction (state
\* idle) or generation (state editing) the workflow state changes again
\* only through a new user action: a poll tick that was awaiting getJob at
\* the cancel does not move the workflow to extracted, done or failed.
C26_CancelIsFinal ==
  [][ (pdfLast = "cancel" /\ pdfState' # pdfState) =>
         pdfLast' \in PdfUserSteps ]_vars

\* C27: in DecoderGenerator, after resetWorkflow the artifact fields,
\* currentIndex and furthestCompletedIndex stay at their initial values
\* until the user starts a new action: the completion of a generation or
\* refinement call that was in flight at the reset does not repopulate an
\* artifact or move the step pointer.  Stated for the step that follows the
\* reset: the one user action the select_manufacturer card then offers, the
\* choice of a manufacturer, changes none of these fields.
C27_ResetHolds ==
  [][ lastAction = "reset" =>
        /\ art' = EmptyArt
        /\ currentIndex' = 0
        /\ furthestCompletedIndex' = 0 ]_vars

\* C28: in PdfDecoderGenerator the workflow never gets stuck in the
\* extracted state: whenever extracted is entered, the workflow eventually
\* reaches editing (evidence loaded) or failed (evidence load failed).
C28_ExtractedLeadsOn ==
  (pdfState.step = "extracted") ~> (pdfState.step \in { "editing", "failed" })

\* C29: in PdfDecoderGenerator, whenever the workflow is in the editing
\* state with job id j, evidence for job j has been loaded successfully
\* since j was uploaded; in particular StartGeneration is never sent for a
\* job whose extraction failed or timed out.
C29_EditingHasEvidence ==
  /\ pdfState.step = "editing" => pdfState.jobId \in pdfLoadedJobs
  /\ \A c \in PdfAwaiting("startGeneration") : c.jobId \in pdfLoadedJobs


\* a step in which a call awaited by a poll tick settles
PollCallSettles ==
  \E c \in BagToSet(inflight) :
    /\ c.kind \in { "poll_getJob", "poll_loadEvidence" }
    /\ CopiesIn(c, inflight') < CopiesIn(c, inflight)

\* C30: the result of an extraction is applied at most once per upload: once
\* a poll tick of the upload has stored the documentation and moved to
\* view_doc, no later continuation of a tick of the same poll changes
\* documentation or moves currentIndex
C30_AppliedOnce ==
  [][ (applied = "yes" /\ PollCallSettles) =>
        /\ documentation' = documentation
        /\ currentIndex' = currentIndex ]_vars

====
